---- MODULE Spec2Model ----
(***************************************************************************)
(* A model of the nixd controller (lib/Server/Controller.cpp) and of the   *)
(* expression helpers declared in include/nixd/Expr/Expr.h.                *)
(*                                                                         *)
(* Conventions                                                             *)
(*  - std::optional<T> and nullable pointers are sequences of length <= 1. *)
(*  - A string is a sequence of one-character strings.                     *)
(*  - A document is a single line, so an LSP position is a character       *)
(*    offset into the text.                                                *)
(***************************************************************************)
EXTENDS Integers, Sequences, FiniteSets, TLC

(***************************************************************************)
(* Bounds of the model.                                                    *)
(***************************************************************************)
MaxLen == 2
MaxChanges == 2
MaxVersion == 3
MaxWorkers == 2
MaxDepth == 2

Paths == {"p1", "p2"}
Chars == {"a", "b"}

VARIABLES
    Config,            \* configuration::TopLevel: eval.workers, options.enable
    WaitWorker,        \* Server::WaitWorker (constructor argument)
    WorkspaceVersion,  \* Server::WorkspaceVersion
    EvalWorkers,       \* std::deque<std::unique_ptr<Proc>>, front first
    OptionWorkers,     \* std::deque<std::unique_ptr<Proc>>, front first
    DraftMgr,          \* path -> optional draft (Contents, Version)
    ASTMgr,            \* path -> optional last scheduled parse
    DiagStatus,        \* (WorkspaceVersion, ClientDiags)
    out,               \* what the last handler sent to the client, in order
    session,           \* history: per path, what the open session amounts to
    lastNotif,         \* history: the last client notification handled
    lastDiag,          \* history: the last worker diagnostic batch handled
    maxPublished,      \* history: greatest version of a batch shown so far
    spawned,           \* history: snapshot versions of the eval workers forked
    hover,             \* the hover request in progress and its askWC call
    chain,             \* history: the frames the AST was made of, root first
    ref,               \* history: the displacement of the AST's variable
    ast,               \* the AST of a parsed document: its root node
    ParentMap,         \* optional result of getParentMap(ast)
    found,             \* optional result of searchDefinition on the variable
    req,               \* the read request in progress, and what was replied
    mux,               \* the worker reader threads inside onEvalDiagnostic
    upd,               \* the document handler the transport reader is inside
    lk,                \* the mutexes: who owns each, where each thread stands
    scan,              \* a declaration task computing its attribute path
    trav               \* a traversal of the generic AST visitor, and its log

ctlVars == <<Config, WaitWorker, WorkspaceVersion, EvalWorkers, OptionWorkers,
             DraftMgr, ASTMgr, DiagStatus, out, session, lastNotif, lastDiag,
             maxPublished, spawned>>

askVars == <<hover>>

\* What the document, configuration and diagnostics handlers leave alone
astVars == <<chain, ref, ast, ParentMap, found>>

reqVars == <<req>>

muxVars == <<mux>>

updVars == <<upd>>

lkVars == <<lk>>

scanVars == <<scan>>

travVars == <<trav>>

nonCtlVars ==
    <<askVars, astVars, reqVars, muxVars, updVars, lkVars, scanVars,
      travVars>>

vars == <<ctlVars, nonCtlVars>>

(***************************************************************************)
(* Strings and optional values.                                            *)
(***************************************************************************)
None == <<>>
Some(x) == <<x>>

SeqsUpTo(S, n) == UNION {[1..k -> S] : k \in 0..n}

Texts == SeqsUpTo(Chars, MaxLen)

DigitChars == <<"0", "1", "2", "3", "4", "5", "6", "7", "8", "9">>

RECURSIVE to_string(_)
to_string(n) ==
    IF n < 0 THEN <<"-">> \o to_string(0 - n)
    ELSE IF n < 10 THEN <<DigitChars[n + 1]>>
    ELSE to_string(n \div 10) \o <<DigitChars[(n % 10) + 1]>>

\* Server::encodeVersion
encodeVersion(LSPVersion) ==
    IF LSPVersion # None THEN to_string(LSPVersion[1]) ELSE <<>>

DigitValue(c) == CHOOSE d \in 0..9 : DigitChars[d + 1] = c

RECURSIVE to_integer(_)
to_integer(s) ==
    IF Len(s) = 1 THEN DigitValue(s[1])
    ELSE 10 * to_integer(SubSeq(s, 1, Len(s) - 1)) + DigitValue(s[Len(s)])

IsDigits(s) == \A i \in 1..Len(s) : \E d \in 1..10 : DigitChars[d] = s[i]

\* DraftStore::decodeVersion: the empty string is no version
decodeVersion(Encoded) ==
    IF Encoded = <<>> THEN None
    ELSE IF Encoded[1] = "-" /\ Len(Encoded) > 1 /\ IsDigits(Tail(Encoded))
         THEN Some(0 - to_integer(Tail(Encoded)))
    ELSE IF IsDigits(Encoded) THEN Some(to_integer(Encoded))
    ELSE None

(***************************************************************************)
(* Draft store.                                                            *)
(***************************************************************************)
\* One LSP content change: a whole-document replacement (no range) or the
\* replacement of the characters from range[1] up to range[2].
WholeChange(t) == [range |-> None, text |-> t]
RangeChange(s, e, t) == [range |-> Some(<<s, e>>), text |-> t]

InvalidRange == [failed |-> TRUE, text |-> <<>>]
Applied(t) == [failed |-> FALSE, text |-> t]

\* lspserver applyChange
applyChange(Contents, Change) ==
    IF Change.range = None THEN Applied(Change.text)
    ELSE LET s == Change.range[1][1]
             e == Change.range[1][2]
         IN IF s > Len(Contents) \/ e > Len(Contents) \/ e < s
            THEN InvalidRange
            ELSE Applied(SubSeq(Contents, 1, s) \o Change.text
                         \o SubSeq(Contents, e + 1, Len(Contents)))

\* DraftStore::addDraft: overwrite any prior draft
addDraft(Store, File, Version, Contents) ==
    [Store EXCEPT ![File] = Some([Contents |-> Contents, Version |-> Version])]

\* DraftStore::removeDraft
removeDraft(Store, File) == [Store EXCEPT ![File] = None]

\* Server::getDraft
getDraft(File) ==
    IF DraftMgr[File] = None THEN None ELSE Some(DraftMgr[File][1].Contents)

(***************************************************************************)
(* Notifications sent to the client.  batch is history: the workspace      *)
(* version of the worker batch a notification belongs to, -1 for none.     *)
(***************************************************************************)
Notification(uri, diagnostics, version, batch) ==
    [uri |-> uri, diagnostics |-> diagnostics, version |-> version,
     batch |-> batch]

\* Server::clearDiagnostic
clearDiagnostic(uri) == Notification(uri, 0, None, -1)

(***************************************************************************)
(* Worker pools.                                                           *)
(***************************************************************************)
Proc(Version) == [WorkspaceVersion |-> Version]

\* Server::forkWorker with the handle just added evicted instead of the front
forkWorker_PopBack(WorkerPool, Size, Version, ForkOk) ==
    IF ~ForkOk THEN WorkerPool
    ELSE IF Len(WorkerPool) + 1 > Size /\ ~WaitWorker THEN WorkerPool
    ELSE Append(WorkerPool, Proc(Version))

\* Server::forkWorker, controller side: ForkOk is whether fork() succeeded
forkWorker(WorkerPool, Size, Version, ForkOk) ==
    IF ~ForkOk THEN WorkerPool
    ELSE LET Pushed == Append(WorkerPool, Proc(Version))
         IN IF Len(Pushed) > Size /\ ~WaitWorker THEN Tail(Pushed) ELSE Pushed

\* Server::updateWorkspaceVersion without its WorkspaceVersion++
updateWorkspaceVersion_NoIncrement(Cfg, ForkOk) ==
    /\ WorkspaceVersion' = WorkspaceVersion
    /\ EvalWorkers' = forkWorker(EvalWorkers, Cfg.workers, WorkspaceVersion,
                                 ForkOk)
    /\ spawned' = IF ForkOk THEN spawned \cup {WorkspaceVersion} ELSE spawned

\* Server::updateWorkspaceVersion, with the configuration in force
updateWorkspaceVersion(Cfg, ForkOk) ==
    /\ WorkspaceVersion' = WorkspaceVersion + 1
    /\ EvalWorkers' = forkWorker(EvalWorkers, Cfg.workers,
                                 WorkspaceVersion + 1, ForkOk)
    /\ spawned' = IF ForkOk THEN spawned \cup {WorkspaceVersion + 1}
                  ELSE spawned

(***************************************************************************)
(* Text document synchronization.                                          *)
(***************************************************************************)
value_or(Opt, Default) == IF Opt = None THEN Default ELSE Opt[1]

\* Server::addDocument
addDocument(File, Contents, Version, ForkOk) ==
    /\ out' = <<Notification(File, 0, decodeVersion(Version), -1)>>
    /\ DraftMgr' = addDraft(DraftMgr, File, Version, Contents)
    /\ ASTMgr' = [ASTMgr EXCEPT ![File] =
                     Some([contents |-> Contents,
                           version |-> value_or(decodeVersion(Version), 0)])]
    /\ updateWorkspaceVersion(Config, ForkOk)

\* Server::removeDocument
removeDocument(File, ForkOk) ==
    /\ out' = <<>>
    /\ DraftMgr' = removeDraft(DraftMgr, File)
    /\ ASTMgr' = ASTMgr
    /\ updateWorkspaceVersion(Config, ForkOk)

\* The loop with every change applied to the draft's text instead of NewCode
RECURSIVE ApplyContentChanges_ToDraft(_, _, _)
ApplyContentChanges_ToDraft(NewCode, Changes, i) ==
    IF i > Len(Changes) THEN Applied(NewCode)
    ELSE LET r == applyChange(NewCode, Changes[i])
         IN IF r.failed THEN InvalidRange
            ELSE IF i = Len(Changes) THEN r
            ELSE ApplyContentChanges_ToDraft(NewCode, Changes, i + 1)

\* The loop with a change that does not apply skipped instead of reported
RECURSIVE ApplyContentChanges_SkipFailed(_, _, _)
ApplyContentChanges_SkipFailed(NewCode, Changes, i) ==
    IF i > Len(Changes) THEN Applied(NewCode)
    ELSE LET r == applyChange(NewCode, Changes[i])
         IN ApplyContentChanges_SkipFailed(
                IF r.failed THEN NewCode ELSE r.text, Changes, i + 1)

\* The loop of Server::onDocumentDidChange over Params.contentChanges: the
\* text after the changes, or failed at the first change that does not apply.
RECURSIVE ApplyContentChanges(_, _, _)
ApplyContentChanges(NewCode, Changes, i) ==
    IF i > Len(Changes) THEN Applied(NewCode)
    ELSE LET r == applyChange(NewCode, Changes[i])
         IN IF r.failed THEN InvalidRange
            ELSE ApplyContentChanges(r.text, Changes, i + 1)

\* What the session of a path amounts to after a notification: the text the
\* client holds, and the version it last sent.
RECURSIVE ApplyInOrder(_, _)
ApplyInOrder(Text, Changes) ==
    IF Changes = <<>> THEN Applied(Text)
    ELSE LET r == applyChange(Text, Head(Changes))
         IN IF r.failed THEN r ELSE ApplyInOrder(r.text, Tail(Changes))

SessionAfterChange(s, LSPVersion, Changes) ==
    IF s = None THEN None
    ELSE LET r == ApplyInOrder(s[1].text, Changes)
         IN IF r.failed THEN None
            ELSE Some([text |-> r.text, version |-> LSPVersion])

\* The index of the first of Changes that does not apply to Text when they
\* are applied in order, 0 when all of them apply.
RECURSIVE FirstFailing(_, _, _)
FirstFailing(Text, Changes, i) ==
    IF i > Len(Changes) THEN 0
    ELSE LET r == applyChange(Text, Changes[i])
         IN IF r.failed THEN i ELSE FirstFailing(r.text, Changes, i + 1)

\* History of a handled notification: its kind and path, the workspace
\* version before it, what the handler did, how many content changes it
\* carried and which of them was the first not to apply.
Handled(kind, File, result, n, failedAt) ==
    [kind |-> kind, path |-> File, before |-> WorkspaceVersion,
     result |-> result, n |-> n, failedAt |-> failedAt]

NoNotification ==
    [kind |-> "none", path |-> "", before |-> 0, result |-> "none", n |-> 0,
     failedAt |-> 0]

\* Server::onDocumentDidOpen
onDocumentDidOpen(File, Text, LSPVersion, ForkOk) ==
    /\ WorkspaceVersion < MaxVersion
    /\ addDocument(File, Text, encodeVersion(LSPVersion), ForkOk)
    /\ session' = [session EXCEPT ![File] =
                      Some([text |-> Text, version |-> LSPVersion])]
    /\ lastNotif' = Handled("didOpen", File, "stored", 0, 0)
    /\ lastDiag' = None
    /\ UNCHANGED <<Config, WaitWorker, OptionWorkers, DiagStatus,
                   maxPublished>>

\* Server::onDocumentDidChange
onDocumentDidChange(File, LSPVersion, Changes, ForkOk) ==
    LET Code == getDraft(File)
    IN IF Code = None
       THEN /\ out' = <<>>
            /\ lastNotif' = Handled("didChange", File, "ignored", Len(Changes), 0)
            /\ lastDiag' = None
            /\ UNCHANGED <<Config, WaitWorker, WorkspaceVersion, EvalWorkers,
                           OptionWorkers, DraftMgr, ASTMgr, DiagStatus,
                           session, maxPublished, spawned>>
       ELSE LET r == ApplyContentChanges(Code[1], Changes, 1)
            IN /\ WorkspaceVersion < MaxVersion
               /\ r.failed \/ Len(r.text) <= MaxLen
               /\ IF r.failed
                  THEN /\ removeDocument(File, ForkOk)
                       /\ lastNotif' = Handled("didChange", File, "removed",
                                           Len(Changes),
                                           FirstFailing(Code[1], Changes, 1))
                  ELSE /\ addDocument(File, r.text,
                                      encodeVersion(LSPVersion), ForkOk)
                       /\ lastNotif' = Handled("didChange", File, "stored",
                                           Len(Changes),
                                           FirstFailing(Code[1], Changes, 1))
               /\ session' = [session EXCEPT ![File] =
                                 SessionAfterChange(@, LSPVersion, Changes)]
               /\ lastDiag' = None
               /\ UNCHANGED <<Config, WaitWorker, OptionWorkers, DiagStatus,
                              maxPublished>>

\* Server::onDocumentDidClose
onDocumentDidClose(File, ForkOk) ==
    /\ WorkspaceVersion < MaxVersion
    /\ removeDocument(File, ForkOk)
    /\ session' = [session EXCEPT ![File] = None]
    /\ lastNotif' = Handled("didClose", File, "removed", 0, 0)
    /\ lastDiag' = None
    /\ UNCHANGED <<Config, WaitWorker, OptionWorkers, DiagStatus,
                   maxPublished>>

(***************************************************************************)
(* Configuration.                                                          *)
(***************************************************************************)
\* Server::forkOptionWorker
forkOptionWorker(ForkOk) ==
    OptionWorkers' = forkWorker(OptionWorkers, 1, WorkspaceVersion, ForkOk)

\* Server::updateConfig
updateConfig(NewConfig, ForkOkOption, ForkOkEval) ==
    /\ WorkspaceVersion < MaxVersion
    /\ Config' = NewConfig
    /\ forkOptionWorker(ForkOkOption)
    /\ updateWorkspaceVersion(NewConfig, ForkOkEval)
    /\ out' = <<>>
    /\ lastNotif' = Handled("config", "", "stored", 0, 0)
    /\ lastDiag' = None
    /\ UNCHANGED <<WaitWorker, DraftMgr, ASTMgr, DiagStatus, session,
                   maxPublished>>

(***************************************************************************)
(* Diagnostics from the eval workers.                                      *)
(***************************************************************************)
Clears(ClientDiags) ==
    [i \in 1..Len(ClientDiags) |-> clearDiagnostic(ClientDiags[i].uri)]

Publishes(Diag) ==
    [i \in 1..Len(Diag.Params) |->
        Notification(Diag.Params[i].uri, Diag.Params[i].diagnostics, None,
                     Diag.WorkspaceVersion)]

\* The check of Server::onEvalDiagnostic against the controller's current
\* WorkspaceVersion instead of the version of the batch shown
Outdated_AgainstCurrent(Diag) == WorkspaceVersion < Diag.WorkspaceVersion

\* The check with a batch of the published version skipped too
Outdated_OrEqual(Diag) == DiagStatus.WorkspaceVersion >= Diag.WorkspaceVersion

\* Whether Server::onEvalDiagnostic skips the batch as outdated
Outdated(Diag) == DiagStatus.WorkspaceVersion > Diag.WorkspaceVersion

\* Server::onEvalDiagnostic
onEvalDiagnostic(Diag) ==
    /\ IF Outdated(Diag)
       THEN /\ out' = <<>>
            /\ UNCHANGED <<DiagStatus, maxPublished>>
       ELSE /\ DiagStatus' = [WorkspaceVersion |-> Diag.WorkspaceVersion,
                              ClientDiags |-> Diag.Params]
            /\ out' = Clears(DiagStatus.ClientDiags) \o Publishes(Diag)
            /\ maxPublished' = IF /\ Diag.Params # <<>>
                                  /\ Diag.WorkspaceVersion > maxPublished
                               THEN Diag.WorkspaceVersion ELSE maxPublished
    /\ lastDiag' = Some([WorkspaceVersion |-> Diag.WorkspaceVersion,
                         dropped |-> Outdated(Diag)])
    /\ lastNotif' = NoNotification
    /\ UNCHANGED <<Config, WaitWorker, WorkspaceVersion, EvalWorkers,
                   OptionWorkers, DraftMgr, ASTMgr, session, spawned>>

(***************************************************************************)
(* Requests to the workers: askWC and latestMatchOr, and the hover request *)
(* that uses them.  A reply carries the snapshot WorkspaceVersion of the   *)
(* worker that sent it.                                                    *)
(***************************************************************************)
HoverReply(Version, value) == [WorkspaceVersion |-> Version, value |-> value]

\* lspserver::Hover{}, the default of latestMatchOr in Server::onHover
DefaultHover == HoverReply(0, <<>>)

\* Reply selection that takes the last reply of the list that matches
latestMatchOr_LastInList(Replies, Pred, Default) ==
    LET M == {i \in 1..Len(Replies) : Pred[Replies[i]]}
    IN IF M = {} THEN Default
       ELSE Replies[CHOOSE i \in M : \A j \in M : j <= i]

\* latestMatchOr: the matching reply of the greatest WorkspaceVersion, the
\* default when none matches; Pred is the caller's predicate, a function
\* from replies to BOOLEAN
latestMatchOr(Replies, Pred, Default) ==
    LET best[i \in 0..Len(Replies)] ==
            IF i = 0 THEN 0
            ELSE IF /\ Pred[Replies[i]]
                    /\ \/ best[i - 1] = 0
                       \/ Replies[i].WorkspaceVersion
                              >= Replies[best[i - 1]].WorkspaceVersion
                 THEN i
            ELSE best[i - 1]
    IN IF best[Len(Replies)] = 0 THEN Default
       ELSE Replies[best[Len(Replies)]]

\* The predicate of Server::onHover with its test left out
HoverHasContents_Always(H) == TRUE

\* The predicate of Server::onHover: H.contents.value.length() != 0
HoverHasContents(H) == Len(H.value) # 0

\* The predicate of Server::onDefinition
AnyLocation(L) == TRUE

Range(s) == {s[i] : i \in 1..Len(s)}

NoHover ==
    [pc |-> "idle", asked |-> <<>>, answered |-> {}, Resp |-> <<>>,
     reply |-> None]

\* Server::onHover: the handler posts the task to the pool and returns
onHover ==
    /\ hover.pc = "idle"
    /\ hover' = [NoHover EXCEPT !.pc = "posted"]
    /\ UNCHANGED <<ctlVars, astVars, reqVars, muxVars, updVars, lkVars,
                   scanVars, travVars>>

\* askWC, steps 1 and 2: under the pool's lock, snapshot the live workers;
\* send the request to each of them
askWCStart ==
    /\ hover.pc = "posted"
    /\ hover' = [hover EXCEPT
                    !.pc = "asking",
                    !.asked = [i \in 1..Len(EvalWorkers) |->
                                  EvalWorkers[i].WorkspaceVersion]]
    /\ UNCHANGED <<ctlVars, astVars, reqVars, muxVars, updVars, lkVars,
                   scanVars, travVars>>

Alive(Version) ==
    \E i \in 1..Len(EvalWorkers) : EvalWorkers[i].WorkspaceVersion = Version

\* A worker asked, and still in the pool, answers
WorkerAnswers(i, value) ==
    /\ hover.pc \in {"asking", "returned", "replied"}
    /\ i \in (1..Len(hover.asked)) \ hover.answered
    /\ Alive(hover.asked[i])
    /\ hover' = [hover EXCEPT
                    !.answered = @ \cup {i},
                    !.Resp = IF hover.pc = "asking"
                             THEN Append(@, HoverReply(hover.asked[i], value))
                             ELSE @]
    /\ UNCHANGED <<ctlVars, astVars, reqVars, muxVars, updVars, lkVars,
                   scanVars, travVars>>

\* askWC waiting for every worker asked, with no budget
askWCMayReturn_WhenAllAnswered ==
    hover.answered = 1..Len(hover.asked)

\* askWC, step 3: the wait ends when the replies are in or the budget has
\* elapsed, whichever comes first; the budget may elapse at any moment
askWCMayReturn == TRUE

\* askWC, step 4: return the replies received
askWCReturn ==
    /\ hover.pc = "asking"
    /\ askWCMayReturn
    /\ hover' = [hover EXCEPT !.pc = "returned"]
    /\ UNCHANGED <<ctlVars, astVars, reqVars, muxVars, updVars, lkVars,
                   scanVars, travVars>>

\* Server::onHover, the task: Reply(latestMatchOr(Resp, ...))
onHoverReply ==
    /\ hover.pc = "returned"
    /\ hover' = [hover EXCEPT
                    !.pc = "replied",
                    !.reply = Some(latestMatchOr(
                                 hover.Resp,
                                 [H \in Range(hover.Resp) |->
                                     HoverHasContents(H)],
                                 DefaultHover))]
    /\ UNCHANGED <<ctlVars, astVars, reqVars, muxVars, updVars, lkVars,
                   scanVars, travVars>>

\* The request is over; the next one may come
HoverDone ==
    /\ hover.pc = "replied"
    /\ hover' = NoHover
    /\ UNCHANGED <<ctlVars, astVars, reqVars, muxVars, updVars, lkVars,
                   scanVars, travVars>>

(***************************************************************************)
(* The AST.  A node is a record; kids holds its child expressions in the   *)
(* order the traversal takes them, ExprNull standing for a null pointer    *)
(* (an absent default).  A node is named by its path from the root, the    *)
(* sequence of child indexes that leads to it.                             *)
(***************************************************************************)
Node(kind, recursive, hasArg, n, kids) ==
    [kind |-> kind, recursive |-> recursive, hasArg |-> hasArg, n |-> n,
     level |-> 0, index |-> 0, kids |-> kids]

ExprNull == Node("null", FALSE, FALSE, 0, <<>>)
ExprInt == Node("ExprInt", FALSE, FALSE, 0, <<>>)
ExprError == Node("ExprError", FALSE, FALSE, 0, <<>>)

\* A variable that is not fromWith, with its displacement
ExprVar(level, index) ==
    [Node("ExprVar", FALSE, FALSE, 0, <<>>) EXCEPT
        !.level = level, !.index = index]

RECURSIVE At(_, _)
At(Root, E) == IF E = <<>> THEN Root ELSE At(Root.kids[Head(E)], Tail(E))

Front(E) == SubSeq(E, 1, Len(E) - 1)

NoAST ==
    /\ chain = <<>>
    /\ ref = [level |-> 0, index |-> 0]
    /\ ast = ExprNull
    /\ ParentMap = None
    /\ found = None

(***************************************************************************)
(* RecursiveASTVisitor, and the visitor of getParentMap.  The state of the *)
(* visitor is V = (Ret, ParentExpr); every traverse function gives back    *)
(* its boolean result and the state it leaves.                             *)
(***************************************************************************)
Result(ok, V) == [ok |-> ok, V |-> V]

\* RecursiveASTVisitor::visitExpr
visitExpr(E) == TRUE

\* TRY_TO that goes on when the call returned false
TRY_TO_Inverted(r) == ~r.ok

\* TRY_TO(CALL_EXPR): go on iff the call returned true, else return false
TRY_TO(r) == r.ok

\* std::map::insert: an existing entry for the key stays as it is
Insert(Ret, E, Parent) ==
    IF E \in DOMAIN Ret THEN Ret
    ELSE [x \in DOMAIN Ret \cup {E} |-> IF x = E THEN Parent ELSE Ret[x]]

RECURSIVE traverseExpr(_, _, _)
RECURSIVE traverseChildren(_, _, _, _)
RECURSIVE VisitorClass_traverseExpr(_, _, _)

\* RecursiveASTVisitor::traverseExprError: the node is visited, it has no
\* child to traverse
traverseExprError(Root, E, V) ==
    IF ~TRY_TO(Result(visitExpr(E), V)) THEN Result(FALSE, V)
    ELSE Result(TRUE, V)

\* DEF_TRAVERSE_TYPE: visit the node (pre-order), then CODE, which is
\* TRY_TO_TRAVERSE of each child expression in source order
traverseType(Root, E, V) ==
    IF ~TRY_TO(Result(visitExpr(E), V)) THEN Result(FALSE, V)
    ELSE traverseChildren(Root, E, 1, V)

traverseChildren(Root, E, i, V) ==
    IF i > Len(At(Root, E).kids) THEN Result(TRUE, V)
    ELSE LET r == VisitorClass_traverseExpr(Root, E \o <<i>>, V)
         IN IF ~TRY_TO(r) THEN Result(FALSE, r.V)
            ELSE traverseChildren(Root, E, i + 1, r.V)

\* RecursiveASTVisitor::traverseExpr
traverseExpr(Root, E, V) ==
    IF At(Root, E).kind = "null" THEN Result(TRUE, V)
    ELSE IF At(Root, E).kind = "ExprError" THEN traverseExprError(Root, E, V)
    ELSE traverseType(Root, E, V)

\* The traverseExpr of getParentMap's visitor: enter E under the current
\* parent, traverse it as the parent of its children, restore the parent
VisitorClass_traverseExpr(Root, E, V) ==
    IF At(Root, E).kind = "null" THEN Result(TRUE, V)
    ELSE LET r == traverseExpr(Root, E,
                      [Ret |-> Insert(V.Ret, E, V.ParentExpr),
                       ParentExpr |-> E])
         IN Result(TRUE, [r.V EXCEPT !.ParentExpr = V.ParentExpr])

NoEntries == [x \in {} |-> <<>>]

\* getParentMap: one traversal from the root; the root gets no entry
getParentMap(Root) ==
    traverseExpr(Root, <<>>, [Ret |-> NoEntries, ParentExpr |-> <<>>]).V.Ret

(***************************************************************************)
(* RecursiveASTVisitor with an arbitrary Derived.  Derived is the record   *)
(* D: D.post is what its shouldTraversePostOrder returns, D.failAt the     *)
(* nodes at which its visitExpr returns false.  The state threaded through *)
(* the traversal is the log of the nodes visitExpr was called with.        *)
(***************************************************************************)
shouldTraversePostOrder(D) == D.post

\* Derived::visitExpr, reached through visit##EXPR and visitExprError
Derived_visitExpr(D, E, Log) == Result(E \notin D.failAt, Append(Log, E))

\* traverseExprError without the tests of shouldTraversePostOrder
Derived_traverseExprError_Unguarded(D, E, Log) ==
    LET pre == Derived_visitExpr(D, E, Log)
    IN IF ~TRY_TO(pre) THEN Result(FALSE, pre.V)
       ELSE LET post == Derived_visitExpr(D, E, pre.V)
            IN IF ~TRY_TO(post) THEN Result(FALSE, post.V)
               ELSE Result(TRUE, post.V)

\* RecursiveASTVisitor::traverseExprError: one visit, before or after
\* nothing, as the node has no child
Derived_traverseExprError(D, E, Log) ==
    LET pre == IF ~shouldTraversePostOrder(D)
               THEN Derived_visitExpr(D, E, Log) ELSE Result(TRUE, Log)
    IN IF ~TRY_TO(pre) THEN Result(FALSE, pre.V)
       ELSE LET post == IF shouldTraversePostOrder(D)
                        THEN Derived_visitExpr(D, E, pre.V)
                        ELSE Result(TRUE, pre.V)
            IN IF ~TRY_TO(post) THEN Result(FALSE, post.V)
               ELSE Result(TRUE, post.V)

RECURSIVE Derived_traverseExpr(_, _, _, _)
RECURSIVE Derived_traverseCode(_, _, _, _, _)

\* CODE of DEF_TRAVERSE_TYPE: TRY_TO_TRAVERSE of each child in source order
Derived_traverseCode(D, Root, E, i, Log) ==
    IF i > Len(At(Root, E).kids) THEN Result(TRUE, Log)
    ELSE LET r == Derived_traverseExpr(D, Root, E \o <<i>>, Log)
         IN IF ~TRY_TO(r) THEN Result(FALSE, r.V)
            ELSE Derived_traverseCode(D, Root, E, i + 1, r.V)

\* DEF_TRAVERSE_TYPE: the visit before CODE unless post-order, CODE, the
\* visit after CODE if post-order
Derived_traverseType(D, Root, E, Log) ==
    LET pre == IF ~shouldTraversePostOrder(D)
               THEN Derived_visitExpr(D, E, Log) ELSE Result(TRUE, Log)
    IN IF ~TRY_TO(pre) THEN Result(FALSE, pre.V)
       ELSE LET code == Derived_traverseCode(D, Root, E, 1, pre.V)
            IN IF ~TRY_TO(code) THEN Result(FALSE, code.V)
               ELSE LET post == IF shouldTraversePostOrder(D)
                                THEN Derived_visitExpr(D, E, code.V)
                                ELSE Result(TRUE, code.V)
                    IN IF ~TRY_TO(post) THEN Result(FALSE, post.V)
                       ELSE Result(TRUE, post.V)

\* RecursiveASTVisitor::traverseExpr: null is success, else the dispatch on
\* the dynamic type of the node
Derived_traverseExpr(D, Root, E, Log) ==
    IF At(Root, E).kind = "null" THEN Result(TRUE, Log)
    ELSE IF At(Root, E).kind = "ExprError"
         THEN Derived_traverseExprError(D, E, Log)
    ELSE Derived_traverseType(D, Root, E, Log)

NoTraversal ==
    [pc |-> "idle", Root |-> ExprNull, post |-> FALSE, failAt |-> {},
     ok |-> TRUE, Log |-> <<>>]

\* One call of traverseExpr on the root
Traverse ==
    /\ trav.pc = "start"
    /\ LET r == Derived_traverseExpr(trav, trav.Root, <<>>, <<>>)
       IN trav' = [trav EXCEPT !.pc = "done", !.ok = r.ok, !.Log = r.V]
    /\ UNCHANGED <<ctlVars, askVars, astVars, reqVars, muxVars, updVars,
                   lkVars, scanVars>>

(***************************************************************************)
(* The scope resolver: isEnvCreated, searchEnvExpr, getDisplOf,            *)
(* searchDefinition.                                                       *)
(***************************************************************************)
\* The index of Child among the children of its parent
KidIndex(Child) == Child[Len(Child)]

\* isEnvCreated(const ExprAttrs *, Child) without the test of recursive
isEnvCreatedAttrs_AnySet(P, k) ==
    k <= P.n \/ (k - P.n) % 2 = 0

\* isEnvCreated(const ExprAttrs *, Child): a recursive set, and Child is the
\* value of an attribute; the children are the values of the n static
\* attributes, then name and value of each dynamic attribute
isEnvCreatedAttrs(P, k) ==
    P.recursive /\ (k <= P.n \/ (k - P.n) % 2 = 0)

\* isEnvCreated(const ExprWith *, Child): Child is the body
isEnvCreatedWith(P, k) == k = 2

\* isEnvCreated(Parent, Child)
isEnvCreated(Root, Parent, Child) ==
    LET P == At(Root, Parent)
        k == KidIndex(Child)
    IN CASE P.kind = "ExprAttrs" -> isEnvCreatedAttrs(P, k)
         [] P.kind = "ExprWith" -> isEnvCreatedWith(P, k)
         [] P.kind = "ExprLet" -> TRUE
         [] P.kind = "ExprLambda" -> k = Len(P.kids)
         [] OTHER -> FALSE

\* The walk of a static variable counting the with scopes too
CountsLevel_WithToo(Root, Parent, Child) ==
    isEnvCreated(Root, Parent, Child)

\* Whether the walk of a static variable counts Parent: it creates the env
\* of the node the walk came from, and it is not a with (a dynamic scope)
CountsLevel(Root, Parent, Child) ==
    /\ isEnvCreated(Root, Parent, Child)
    /\ At(Root, Parent).kind # "ExprWith"

\* searchEnvExpr: walk the parent entries from the variable; None when the
\* walk gets to the root with the level not exhausted
RECURSIVE searchEnvExprFrom(_, _, _, _)
searchEnvExprFrom(Root, E, level, Parents) ==
    IF E \notin DOMAIN Parents THEN None
    ELSE IF CountsLevel(Root, Parents[E], E)
         THEN IF level = 0 THEN Some(Parents[E])
              ELSE searchEnvExprFrom(Root, Parents[E], level - 1, Parents)
    ELSE searchEnvExprFrom(Root, Parents[E], level, Parents)

searchEnvExpr(Root, Var, Parents) ==
    searchEnvExprFrom(Root, Var, At(Root, Var).level, Parents)

\* nix::PosIdx: the position of a name bound by the node at
Pos(at, what, i) == [at |-> at, what |-> what, i |-> i]

noPos == Pos(<<>>, "noPos", 0)

getDisplOfAttrs(Root, E, Displ) ==
    IF At(Root, E).recursive /\ Displ < At(Root, E).n
    THEN Pos(E, "attr", Displ)
    ELSE noPos

getDisplOfLet(Root, E, Displ) ==
    IF Displ < At(Root, E).n THEN Pos(E, "attr", Displ)
    ELSE IF Displ = At(Root, E).n THEN Pos(E, "let", 0)
    ELSE noPos

\* index 0 is the position that binds the argument, index > 0 the
\* (index-1)-th formal
getDisplOfLambda(Root, E, Displ) ==
    IF Displ = 0 THEN Pos(E, "arg", 0)
    ELSE IF Displ - 1 < At(Root, E).n THEN Pos(E, "formal", Displ - 1)
    ELSE noPos

getDisplOf(Root, E, Displ) ==
    CASE At(Root, E).kind = "ExprAttrs" -> getDisplOfAttrs(Root, E, Displ)
      [] At(Root, E).kind = "ExprLet" -> getDisplOfLet(Root, E, Displ)
      [] At(Root, E).kind = "ExprLambda" -> getDisplOfLambda(Root, E, Displ)
      [] OTHER -> noPos

\* searchDefinition: the binding site and the position of the slot in it
searchDefinition(Root, Var, Parents) ==
    LET EnvExpr == searchEnvExpr(Root, Var, Parents)
    IN IF EnvExpr = None THEN [site |-> None, pos |-> noPos]
       ELSE [site |-> EnvExpr,
             pos |-> getDisplOf(Root, EnvExpr[1], At(Root, Var).index)]

\* The outcome of a lookup: a position, or a tagged failure
Located(pos) == [tag |-> "ok", pos |-> pos]
Failure(tag) == [tag |-> tag, pos |-> noPos]

\* definitionOf that takes the root for the binding site when the walk ends
\* there
definitionOf_RootAsSite(Root, Var, Parents) ==
    Located(getDisplOf(Root, <<>>, At(Root, Var).index))

\* definitionOf: Unbound when the walk got to the root with no binding site,
\* NotFound when the site has no slot of the variable's index
definitionOf(Root, Var, Parents) ==
    LET r == searchDefinition(Root, Var, Parents)
    IN IF r.site = None THEN Failure("Unbound")
       ELSE IF r.pos = noPos THEN Failure("NotFound")
       ELSE Located(r.pos)

(***************************************************************************)
(* Read requests.  req is the request in progress: its method and path,    *)
(* where its handler or task stands (pc), the askWC call it is in, the     *)
(* replies collected, and the replies sent to the client so far (sent).    *)
(* reader tells whether the transport reader is still inside the handler.  *)
(***************************************************************************)
NoRequest ==
    [method |-> "none", path |-> "", ctx |-> "", pc |-> "idle",
     reader |-> FALSE, pool |-> "", asked |-> <<>>, answered |-> {},
     Resp |-> <<>>, asks |-> <<>>, LOptions |-> None, static |-> FALSE,
     def |-> None, fmt |-> None, sent |-> <<>>]

\* Replies to the client
ErrorReply == [kind |-> "error", value |-> <<>>]
NullReply == [kind |-> "null", value |-> <<>>]
EmptyObject == [kind |-> "object", value |-> <<>>]
ValueReply(value) == [kind |-> "value", value |-> value]

\* A reply of a worker of snapshot Version
WorkerAnswer(Version, value) ==
    [WorkspaceVersion |-> Version, value |-> value]

PoolOf(pool) == IF pool = "eval" THEN EvalWorkers ELSE OptionWorkers

\* askWC, steps 1 and 2, for the request in progress
askWCBegin(r, pool) ==
    [r EXCEPT !.pc = "asking",
              !.pool = pool,
              !.asked = [i \in 1..Len(PoolOf(pool)) |->
                            PoolOf(pool)[i].WorkspaceVersion],
              !.answered = {},
              !.Resp = <<>>,
              !.asks = Append(@, pool)]

InPool(pool, Version) ==
    \E i \in 1..Len(PoolOf(pool)) : PoolOf(pool)[i].WorkspaceVersion = Version

\* askWC, step 3: a worker asked, still in its pool, answers; the answer
\* counts while the call waits
RequestAnswered(i, value) ==
    /\ req.pc \in {"asking", "returned"}
    /\ i \in (1..Len(req.asked)) \ req.answered
    /\ InPool(req.pool, req.asked[i])
    /\ req' = [req EXCEPT
                  !.answered = @ \cup {i},
                  !.Resp = IF req.pc = "asking"
                           THEN Append(@, WorkerAnswer(req.asked[i], value))
                           ELSE @]
    /\ UNCHANGED <<ctlVars, askVars, astVars, muxVars, updVars, lkVars,
                   scanVars, travVars>>

\* askWC, step 4: the replies are in or the budget has elapsed
RequestAskReturn ==
    /\ req.pc = "asking"
    /\ req' = [req EXCEPT !.pc = "returned"]
    /\ UNCHANGED <<ctlVars, askVars, astVars, muxVars, updVars, lkVars,
                   scanVars, travVars>>

\* Server::onDefinition: the handler posts the task and returns
onDefinition(File) ==
    /\ req.pc = "idle"
    /\ req' = [NoRequest EXCEPT !.method = "definition", !.path = File,
                                !.pc = "posted"]
    /\ UNCHANGED <<ctlVars, askVars, astVars, muxVars, updVars, lkVars,
                   scanVars, travVars>>

\* The task of Server::onDefinition, first part: ask the eval workers
DefinitionAsk ==
    /\ req.method = "definition" /\ req.pc = "posted"
    /\ req' = askWCBegin(req, "eval")
    /\ UNCHANGED <<ctlVars, askVars, astVars, muxVars, updVars, lkVars,
                   scanVars, travVars>>

\* withParseAST for a path without draft: the request is answered with a
\* neutral value
withParseAST_NoDraft(r) ==
    [r EXCEPT !.pc = "done", !.sent = Append(@, EmptyObject)]

\* The task of Server::onDefinition that goes to the static resolver
\* whatever the workers replied
DefinitionChoose_AlwaysStatic(r) ==
    IF DraftMgr[r.path] = None THEN withParseAST_NoDraft(r)
    ELSE [r EXCEPT !.pc = "withAST", !.static = TRUE]

\* The task of Server::onDefinition after askWC: a worker replied, so reply
\* latestMatchOr of the replies and return; otherwise withParseAST
DefinitionChoose(r) ==
    IF r.Resp # <<>>
    THEN [r EXCEPT
            !.pc = "done",
            !.sent = Append(@, ValueReply(
                         latestMatchOr(r.Resp,
                                       [L \in Range(r.Resp) |->
                                           AnyLocation(L)],
                                       EmptyObject)))]
    ELSE IF DraftMgr[r.path] = None THEN withParseAST_NoDraft(r)
    ELSE [r EXCEPT !.pc = "withAST", !.static = TRUE]

DefinitionAfterAsk ==
    /\ req.method = "definition" /\ req.pc = "returned"
    /\ req' = DefinitionChoose(req)
    /\ UNCHANGED <<ctlVars, askVars, astVars, muxVars, updVars, lkVars,
                   scanVars, travVars>>

\* The Action of Server::onDefinition with the catch left out: the failure
\* leaves the response of ReplyRAII as it was, an error
StaticDefinition_NoCatch(Def) ==
    IF Def.tag = "ok" THEN ValueReply(Def.pos) ELSE ErrorReply

\* The Action of Server::onDefinition: the location of the definition, or,
\* when the lookup threw, the empty object
StaticDefinition(Def) ==
    IF Def.tag = "ok" THEN ValueReply(Def.pos) ELSE EmptyObject

\* withAST runs the action once the AST of the path is published; ReplyRAII
\* sends the response when the action is over
DefinitionAction(Def) ==
    /\ req.method = "definition" /\ req.pc = "withAST"
    /\ ASTMgr[req.path] # None
    /\ req' = [req EXCEPT !.pc = "done",
                          !.def = Some(Def),
                          !.sent = Append(@, StaticDefinition(Def))]
    /\ UNCHANGED <<ctlVars, askVars, astVars, muxVars, updVars, lkVars,
                   scanVars, travVars>>

\* Resp.back() of an askWC call, when it is not empty
Back(Resp) == IF Resp = <<>> THEN None ELSE Some(Resp[Len(Resp)].value)

\* An optional value assigned to the response of ReplyRAII
OptionalReply(Opt) == IF Opt = None THEN NullReply ELSE ValueReply(Opt[1])

\* The outcomes of a task that dereferences the draft of a path that has
\* none: the process dies, or the task goes on with whatever it read
MissingDraftOutcomes == {"crash", "continue"}

\* Server::onDecalration: null at once when the options are disabled,
\* otherwise the handler posts the task and returns
onDecalration(File) ==
    /\ req.pc = "idle"
    /\ req' = IF ~Config.optionsEnable
              THEN [NoRequest EXCEPT !.method = "declaration",
                                     !.path = File, !.pc = "done",
                                     !.sent = <<NullReply>>]
              ELSE [NoRequest EXCEPT !.method = "declaration",
                                     !.path = File, !.pc = "posted"]
    /\ UNCHANGED <<ctlVars, askVars, astVars, muxVars, updVars, lkVars,
                   scanVars, travVars>>

\* The task of Server::onDecalration, up to askWC: the draft is read
\* without a check
DeclarationAsk(Outcome) ==
    /\ req.method = "declaration" /\ req.pc = "posted"
    /\ req' = IF DraftMgr[req.path] = None /\ Outcome = "crash"
              THEN [req EXCEPT !.pc = "crashed"]
              ELSE askWCBegin(req, "option")
    /\ UNCHANGED <<ctlVars, askVars, astVars, muxVars, updVars, lkVars,
                   scanVars, travVars>>

\* The task of Server::onDecalration after askWC: null with no reply,
\* otherwise the last reply
DeclarationAfterAsk ==
    /\ req.method = "declaration" /\ req.pc = "returned"
    /\ req' = [req EXCEPT !.pc = "done",
                          !.sent = Append(@, OptionalReply(Back(req.Resp)))]
    /\ UNCHANGED <<ctlVars, askVars, astVars, muxVars, updVars, lkVars,
                   scanVars, travVars>>

\* lspserver::CompletionList
List(items, isIncomplete) == [items |-> items, isIncomplete |-> isIncomplete]

Items(Opt) == IF Opt = None THEN <<>> ELSE Opt[1].items

LocationContexts == {"AttrName", "Value", "Unknown"}

\* Server::onCompletion, the handler: with a draft it hands the Action to
\* withAST and waits on the semaphore, without one it replies an error
onCompletion(File, ctx) ==
    /\ req.pc = "idle"
    /\ req' = IF DraftMgr[File] # None
              THEN [NoRequest EXCEPT !.method = "completion", !.path = File,
                                     !.ctx = ctx, !.pc = "withAST",
                                     !.reader = TRUE]
              ELSE [NoRequest EXCEPT !.method = "completion", !.path = File,
                                     !.ctx = ctx, !.pc = "done",
                                     !.sent = <<ErrorReply>>]
    /\ UNCHANGED <<ctlVars, askVars, astVars, muxVars, updVars, lkVars,
                   scanVars, travVars>>

\* The end of the Action of Server::onCompletion: the semaphore is released
\* and ReplyRAII sends the response
CompletionFinish(r, Response) ==
    [r EXCEPT !.pc = "done", !.reader = FALSE, !.sent = Append(@, Response)]

\* What follows CompletionFromOptions in the switch, with the same order
\* of the items but the list not marked incomplete
CompletionAfterEval_Complete(r, LEval) ==
    IF r.ctx = "Value" THEN CompletionFinish(r, OptionalReply(LEval))
    ELSE CompletionFinish(r, ValueReply(
             List(Items(r.LOptions) \o Items(LEval), FALSE)))

\* What follows CompletionFromEval in the switch
CompletionAfterEval(r, LEval) ==
    IF r.ctx = "Value" THEN CompletionFinish(r, OptionalReply(LEval))
    ELSE CompletionFinish(r, ValueReply(
             List(Items(r.LOptions) \o Items(LEval), TRUE)))

\* What follows CompletionFromOptions in the switch
CompletionAfterOptions(r, LOptions) ==
    IF r.ctx = "AttrName" THEN CompletionFinish(r, OptionalReply(LOptions))
    ELSE askWCBegin([r EXCEPT !.LOptions = LOptions], "eval")

\* CompletionFromOptions, up to askWC
CompletionFromOptions(r) ==
    IF Config.optionsEnable THEN askWCBegin(r, "option")
    ELSE CompletionAfterOptions(r, None)

\* The switch with every context sent to both pools
CompletionSwitch_AlwaysBoth(r) == CompletionFromOptions(r)

\* The switch of the Action over AST.getContext
CompletionSwitch(r) ==
    IF r.ctx = "Value" THEN askWCBegin(r, "eval")
    ELSE CompletionFromOptions(r)

\* withAST runs the Action of Server::onCompletion once the AST of the
\* path is published
CompletionAction ==
    /\ req.method = "completion" /\ req.pc = "withAST"
    /\ ASTMgr[req.path] # None
    /\ req' = CompletionSwitch(req)
    /\ UNCHANGED <<ctlVars, askVars, astVars, muxVars, updVars, lkVars,
                   scanVars, travVars>>

\* The Action of Server::onCompletion when an askWC call has returned
CompletionAfterAsk ==
    /\ req.method = "completion" /\ req.pc = "returned"
    /\ req' = IF req.pool = "option"
              THEN CompletionAfterOptions(req, Back(req.Resp))
              ELSE CompletionAfterEval(req, Back(req.Resp))
    /\ UNCHANGED <<ctlVars, askVars, astVars, muxVars, updVars, lkVars,
                   scanVars, travVars>>

\* The requests answered from the AST alone
StaticMethods == {"documentLink", "documentSymbol", "rename"}

\* Server::onDocumentLink, Server::onDocumentSymbol, Server::onRename: the
\* handler posts the task and returns
onStatic(method, File) ==
    /\ req.pc = "idle"
    /\ req' = [NoRequest EXCEPT !.method = method, !.path = File,
                                !.pc = "posted"]
    /\ UNCHANGED <<ctlVars, askVars, astVars, muxVars, updVars, lkVars,
                   scanVars, travVars>>

\* Their task: withParseAST
StaticTask ==
    /\ req.method \in StaticMethods /\ req.pc = "posted"
    /\ req' = IF DraftMgr[req.path] = None THEN withParseAST_NoDraft(req)
              ELSE [req EXCEPT !.pc = "withAST", !.static = TRUE]
    /\ UNCHANGED <<ctlVars, askVars, astVars, muxVars, updVars, lkVars,
                   scanVars, travVars>>

\* Their Action: the links or symbols of the AST; for rename the edits, or
\* an error when AST.rename has none
StaticResponse(method, Found) ==
    IF method = "rename" /\ ~Found THEN ErrorReply
    ELSE ValueReply(IF Found THEN <<"x">> ELSE <<>>)

StaticAction(Found) ==
    /\ req.method \in StaticMethods /\ req.pc = "withAST"
    /\ ASTMgr[req.path] # None
    /\ req' = [req EXCEPT
                  !.pc = "done",
                  !.sent = Append(@, StaticResponse(req.method, Found))]
    /\ UNCHANGED <<ctlVars, askVars, astVars, muxVars, updVars, lkVars,
                   scanVars, travVars>>

INT_MAX == 2147483647

\* lspserver::TextEdit over the whole document
TextEdit(newText) ==
    [range |-> <<<<0, 0>>, <<INT_MAX, INT_MAX>>>>, newText |-> newText]

\* How the external formatter ends: it cannot be started (the exception is
\* caught), it exits with a failure status, it is not ready within the
\* second, or it succeeds
FormatterOutcomes == {"notStarted", "failed", "timeout", "ok"}

\* Server::onFormat: the handler posts the task and returns
onFormat(File) ==
    /\ req.pc = "idle"
    /\ req' = [NoRequest EXCEPT !.method = "formatting", !.path = File,
                                !.pc = "posted"]
    /\ UNCHANGED <<ctlVars, askVars, astVars, muxVars, updVars, lkVars,
                   scanVars, travVars>>

\* The reply of the task of Server::onFormat with the exit status of the
\* formatter looked at
FormatReply_CheckedStatus(Outcome, FormattedCode) ==
    IF Outcome = "ok" THEN ValueReply(<<TextEdit(FormattedCode)>>)
    ELSE ErrorReply

\* The reply of the task of Server::onFormat: FormattedCode has a value
\* when the future is ready and the lambda returned what the formatter
\* wrote, which it does after Fmt.wait() whatever the exit status is
FormatReply(Outcome, FormattedCode) ==
    IF Outcome \in {"ok", "failed"}
    THEN ValueReply(<<TextEdit(FormattedCode)>>)
    ELSE ErrorReply

\* The task of Server::onFormat: the draft is read without a check
FormatTask(Missing, Outcome, FormattedCode) ==
    /\ req.method = "formatting" /\ req.pc = "posted"
    /\ req' = IF DraftMgr[req.path] = None /\ Missing = "crash"
              THEN [req EXCEPT !.pc = "crashed"]
              ELSE [req EXCEPT
                      !.pc = "done",
                      !.fmt = Some([outcome |-> Outcome,
                                    output |-> FormattedCode]),
                      !.sent = Append(@, FormatReply(Outcome,
                                                     FormattedCode))]
    /\ UNCHANGED <<ctlVars, askVars, astVars, muxVars, updVars, lkVars,
                   scanVars, travVars>>

\* The request is over; the next one may come
RequestDone ==
    /\ req.pc = "done"
    /\ ~req.reader
    /\ req' = NoRequest
    /\ UNCHANGED <<ctlVars, askVars, astVars, muxVars, updVars, lkVars,
                   scanVars, travVars>>

(***************************************************************************)
(* Server::onEvalDiagnostic statement by statement.  Every worker has a    *)
(* reader thread in the controller (forkWorker, WorkerInputDispatcher)     *)
(* that calls the handler; mux holds who owns DiagStatusLock, where each   *)
(* thread stands, and, as history, the notifications sent so far (stream)  *)
(* and the batches that passed the version check (accepted).               *)
(***************************************************************************)
Threads == {1, 2}

MaxDeliveries == 3

NoDiag == [WorkspaceVersion |-> 0, Params |-> <<>>]

NoMux ==
    [lock |-> 0,
     th |-> [t \in Threads |-> [pc |-> "idle", Diag |-> NoDiag, i |-> 0]],
     stream |-> <<>>, accepted |-> <<>>, delivered |-> 0]

ctlButDiagStatus ==
    <<Config, WaitWorker, WorkspaceVersion, EvalWorkers, OptionWorkers,
      DraftMgr, ASTMgr, out, session, lastNotif, lastDiag, maxPublished,
      spawned>>

\* A thread that enters the block whoever holds the mutex
MayLock_NoMutex(lock) == TRUE

\* std::lock_guard<std::mutex> Guard(DiagStatusLock): the mutex is free
MayLock(lock) == lock = 0

\* The reader thread t of a worker gets a diagnostic notification and
\* calls Server::onEvalDiagnostic
MuxDeliver(t, Diag) ==
    /\ mux.th[t].pc = "idle"
    /\ mux.delivered < MaxDeliveries
    /\ mux' = [mux EXCEPT !.th[t] = [pc |-> "lock", Diag |-> Diag, i |-> 0],
                          !.delivered = @ + 1]
    /\ UNCHANGED <<ctlVars, askVars, astVars, reqVars, updVars, lkVars,
                   scanVars, travVars>>

MuxLock(t) ==
    /\ mux.th[t].pc = "lock"
    /\ MayLock(mux.lock)
    /\ mux' = [mux EXCEPT !.lock = t, !.th[t].pc = "check"]
    /\ UNCHANGED <<ctlVars, askVars, astVars, reqVars, updVars, lkVars,
                   scanVars, travVars>>

\* The version check: an outdated batch returns, which unlocks; otherwise
\* DiagStatus.WorkspaceVersion is set
MuxCheck(t) ==
    /\ mux.th[t].pc = "check"
    /\ IF Outdated(mux.th[t].Diag)
       THEN /\ mux' = [mux EXCEPT !.lock = 0,
                                  !.th[t] = [pc |-> "idle", Diag |-> NoDiag,
                                             i |-> 0]]
            /\ UNCHANGED DiagStatus
       ELSE /\ mux' = [mux EXCEPT !.th[t].pc = "clear", !.th[t].i = 1,
                                  !.accepted = Append(@, mux.th[t].Diag)]
            /\ DiagStatus' = [DiagStatus EXCEPT !.WorkspaceVersion =
                                  mux.th[t].Diag.WorkspaceVersion]
    /\ UNCHANGED <<ctlButDiagStatus, askVars, astVars, reqVars, updVars,
                   lkVars, scanVars, travVars>>

\* One turn of the loop over DiagStatus.ClientDiags
MuxClear(t) ==
    /\ mux.th[t].pc = "clear"
    /\ mux.th[t].i <= Len(DiagStatus.ClientDiags)
    /\ mux' = [mux EXCEPT
                  !.stream = Append(@, clearDiagnostic(
                                 DiagStatus.ClientDiags[mux.th[t].i].uri)),
                  !.th[t].i = @ + 1]
    /\ UNCHANGED <<ctlVars, askVars, astVars, reqVars, updVars, lkVars,
                   scanVars, travVars>>

\* DiagStatus.ClientDiags = Diag.Params
MuxStore(t) ==
    /\ mux.th[t].pc = "clear"
    /\ mux.th[t].i > Len(DiagStatus.ClientDiags)
    /\ DiagStatus' = [DiagStatus EXCEPT !.ClientDiags = mux.th[t].Diag.Params]
    /\ mux' = [mux EXCEPT !.th[t].pc = "publish", !.th[t].i = 1]
    /\ UNCHANGED <<ctlButDiagStatus, askVars, astVars, reqVars, updVars,
                   lkVars, scanVars, travVars>>

\* One turn of the loop over Diag.Params
MuxPublish(t) ==
    /\ mux.th[t].pc = "publish"
    /\ mux.th[t].i <= Len(mux.th[t].Diag.Params)
    /\ mux' = [mux EXCEPT
                  !.stream = Append(@, Publishes(mux.th[t].Diag)[mux.th[t].i]),
                  !.th[t].i = @ + 1]
    /\ UNCHANGED <<ctlVars, askVars, astVars, reqVars, updVars, lkVars,
                   scanVars, travVars>>

\* The end of the block: Guard is destroyed
MuxUnlock(t) ==
    /\ mux.th[t].pc = "publish"
    /\ mux.th[t].i > Len(mux.th[t].Diag.Params)
    /\ mux' = [mux EXCEPT !.lock = 0,
                          !.th[t] = [pc |-> "idle", Diag |-> NoDiag, i |-> 0]]
    /\ UNCHANGED <<ctlVars, askVars, astVars, reqVars, updVars, lkVars,
                   scanVars, travVars>>

(***************************************************************************)
(* The document handlers statement by statement, on the transport reader.  *)
(* upd holds the handler in progress: the body it runs (addDocument or     *)
(* removeDocument), the statement it is at (pc, 0 when idle) and its       *)
(* arguments; as history, the number of notifications handled (count), the *)
(* text each path is to have after them (expect), and what the controller  *)
(* held at each successful fork(), which is what the worker carries.       *)
(***************************************************************************)
NoUpdate ==
    [pc |-> 0, body |-> "none", File |-> "", Contents |-> <<>>,
     Version |-> <<>>, count |-> 0, expect |-> [p \in Paths |-> None],
     snaps |-> <<>>]

\* Server::addDocument with the worker forked before the draft is stored
addDocument_ForkFirst(i) ==
    <<"PublishDiagnostic", "increment", "forkWorker", "addDraft",
      "schedParse">>[i]

\* The statements of Server::addDocument, updateWorkspaceVersion inlined
addDocument_Statement(i) ==
    <<"PublishDiagnostic", "addDraft", "schedParse", "increment",
      "forkWorker">>[i]

\* The statements of Server::removeDocument
removeDocument_Statement(i) == <<"removeDraft", "increment", "forkWorker">>[i]

Statement(body, i) ==
    IF body = "add" THEN addDocument_Statement(i)
    ELSE removeDocument_Statement(i)

LastStatement(body) == IF body = "add" THEN 5 ELSE 3

\* Server::onDocumentDidOpen up to the call of addDocument
UpdOpen(File, Text) ==
    /\ upd.pc = 0
    /\ WorkspaceVersion < MaxVersion
    /\ upd' = [upd EXCEPT !.pc = 1, !.body = "add", !.File = File,
                          !.Contents = Text,
                          !.Version = encodeVersion(None),
                          !.count = @ + 1,
                          !.expect[File] = Some(Text)]
    /\ UNCHANGED <<ctlVars, askVars, astVars, reqVars, muxVars, lkVars,
                   scanVars, travVars>>

\* Server::onDocumentDidChange on a path with a draft, up to the call of
\* addDocument or removeDocument (without a draft it only logs)
UpdChange(File, Changes) ==
    /\ upd.pc = 0
    /\ WorkspaceVersion < MaxVersion
    /\ getDraft(File) # None
    /\ LET r == ApplyContentChanges(getDraft(File)[1], Changes, 1)
       IN /\ r.failed \/ Len(r.text) <= MaxLen
          /\ upd' = IF r.failed
                    THEN [upd EXCEPT !.pc = 1, !.body = "remove",
                                     !.File = File, !.count = @ + 1,
                                     !.expect[File] = None]
                    ELSE [upd EXCEPT !.pc = 1, !.body = "add",
                                     !.File = File, !.Contents = r.text,
                                     !.Version = encodeVersion(None),
                                     !.count = @ + 1,
                                     !.expect[File] = Some(r.text)]
    /\ UNCHANGED <<ctlVars, askVars, astVars, reqVars, muxVars, lkVars,
                   scanVars, travVars>>

\* Server::onDocumentDidClose up to the call of removeDocument
UpdClose(File) ==
    /\ upd.pc = 0
    /\ WorkspaceVersion < MaxVersion
    /\ upd' = [upd EXCEPT !.pc = 1, !.body = "remove", !.File = File,
                          !.count = @ + 1, !.expect[File] = None]
    /\ UNCHANGED <<ctlVars, askVars, astVars, reqVars, muxVars, lkVars,
                   scanVars, travVars>>

\* What fork() duplicates into the worker
Snapshot ==
    [version |-> WorkspaceVersion, count |-> upd.count, body |-> upd.body,
     File |-> upd.File, Drafts |-> DraftMgr, Parses |-> ASTMgr,
     expect |-> upd.expect]

\* The next statement of the body in progress
UpdStatement(ForkOk) ==
    /\ upd.pc > 0
    /\ LET st == Statement(upd.body, upd.pc)
       IN /\ out' = IF st = "PublishDiagnostic"
                    THEN <<Notification(upd.File, 0,
                                        decodeVersion(upd.Version), -1)>>
                    ELSE out
          /\ DraftMgr' = IF st = "addDraft"
                         THEN addDraft(DraftMgr, upd.File, upd.Version,
                                       upd.Contents)
                         ELSE IF st = "removeDraft"
                         THEN removeDraft(DraftMgr, upd.File)
                         ELSE DraftMgr
          /\ ASTMgr' = IF st = "schedParse"
                       THEN [ASTMgr EXCEPT ![upd.File] =
                                Some([contents |-> upd.Contents,
                                      version |-> value_or(
                                          decodeVersion(upd.Version), 0)])]
                       ELSE ASTMgr
          /\ WorkspaceVersion' = IF st = "increment"
                                 THEN WorkspaceVersion + 1
                                 ELSE WorkspaceVersion
          /\ EvalWorkers' = IF st = "forkWorker"
                            THEN forkWorker(EvalWorkers, Config.workers,
                                            WorkspaceVersion, ForkOk)
                            ELSE EvalWorkers
          /\ spawned' = IF st = "forkWorker" /\ ForkOk
                        THEN spawned \cup {WorkspaceVersion} ELSE spawned
          /\ upd' = [upd EXCEPT
                        !.pc = IF upd.pc = LastStatement(upd.body) THEN 0
                               ELSE upd.pc + 1,
                        !.snaps = IF st = "forkWorker" /\ ForkOk
                                  THEN Append(@, Snapshot) ELSE @]
    /\ UNCHANGED <<Config, WaitWorker, OptionWorkers, DiagStatus, session,
                   lastNotif, lastDiag, maxPublished>>
    /\ UNCHANGED <<askVars, astVars, reqVars, muxVars, lkVars,
                   scanVars, travVars>>

(***************************************************************************)
(* The mutexes of the controller.  A handler is taken as the sequence of   *)
(* lock and unlock operations its code performs; lk holds the owner of     *)
(* each mutex and, per thread, the handler it runs and the operation it is *)
(* at (pc, 0 when idle).                                                   *)
(***************************************************************************)
Locks == {"DraftStore", "EvalWorkerLock", "OptionWorkerLock", "DiagStatusLock"}

\* The transport reader, a thread of the pool, the reader thread of a worker
LockThreads == {"reader", "pool", "worker"}

Acquire(l) == [op |-> "lock", lock |-> l]
Release(l) == [op |-> "unlock", lock |-> l]

NoLocks ==
    [owner |-> [l \in Locks |-> "none"],
     th |-> [t \in LockThreads |-> [handler |-> "none", pc |-> 0]]]

\* DraftStore::getDraft, addDraft, removeDraft: the mutex of the store is
\* held inside the call only
DraftStoreLocks == <<Acquire("DraftStore"), Release("DraftStore")>>

\* Server::updateWorkspaceVersion: EvalGuard holds EvalWorkerLock over
\* forkWorker
updateWorkspaceVersionLocks ==
    <<Acquire("EvalWorkerLock"), Release("EvalWorkerLock")>>

\* Server::forkOptionWorker
forkOptionWorkerLocks ==
    <<Acquire("OptionWorkerLock"), Release("OptionWorkerLock")>>

\* askWC: the workers are snapshot under the lock of the pool, which is
\* released before anything is sent
askWCLocks(l) == <<Acquire(l), Release(l)>>

\* Server::addDocument with the store kept locked over the fork
addDocumentLocks_StoreHeld ==
    <<Acquire("DraftStore")>> \o updateWorkspaceVersionLocks
        \o <<Release("DraftStore")>>

\* Server::addDocument: DraftMgr.addDraft, then updateWorkspaceVersion
addDocumentLocks == DraftStoreLocks \o updateWorkspaceVersionLocks

\* Server::removeDocument
removeDocumentLocks == DraftStoreLocks \o updateWorkspaceVersionLocks

\* Server::onEvalDiagnostic: Guard holds DiagStatusLock over the block
onEvalDiagnosticLocks ==
    <<Acquire("DiagStatusLock"), Release("DiagStatusLock")>>

\* The handlers each thread runs
HandlersOf(t) ==
    IF t = "reader"
    THEN {"didOpen", "didChange", "didClose", "updateConfig", "completion"}
    ELSE IF t = "pool"
    THEN {"hover", "definition", "declaration", "completionAction",
          "formatting"}
    ELSE {"onEvalDiagnostic"}

\* The lock operations of a handler, in the order of its code
LocksOf(handler) ==
    CASE handler = "didOpen" -> addDocumentLocks
      [] handler = "didChange" -> DraftStoreLocks \o addDocumentLocks
      [] handler = "didClose" -> DraftStoreLocks \o removeDocumentLocks
      [] handler = "updateConfig" ->
            forkOptionWorkerLocks \o updateWorkspaceVersionLocks
      [] handler = "completion" -> DraftStoreLocks
      [] handler = "hover" -> askWCLocks("EvalWorkerLock")
      [] handler = "definition" ->
            askWCLocks("EvalWorkerLock") \o DraftStoreLocks
      [] handler = "declaration" ->
            DraftStoreLocks \o askWCLocks("OptionWorkerLock")
      [] handler = "completionAction" ->
            DraftStoreLocks \o askWCLocks("OptionWorkerLock")
                \o askWCLocks("EvalWorkerLock")
      [] handler = "formatting" -> DraftStoreLocks
      [] handler = "onEvalDiagnostic" -> onEvalDiagnosticLocks

\* Thread t starts a handler
LockStart(t, handler) ==
    /\ lk.th[t].pc = 0
    /\ lk' = [lk EXCEPT !.th[t] = [handler |-> handler, pc |-> 1]]
    /\ UNCHANGED <<ctlVars, askVars, astVars, reqVars, muxVars, updVars,
                   scanVars, travVars>>

\* The operation thread t is at
NextOp(t) == LocksOf(lk.th[t].handler)[lk.th[t].pc]

\* Whether thread t can perform its operation: lock() waits for the owner
CanStep(t) ==
    /\ lk.th[t].pc > 0
    /\ NextOp(t).op = "lock" => lk.owner[NextOp(t).lock] = "none"

\* Thread t locks or unlocks; after the last operation the handler is over
LockStep(t) ==
    /\ CanStep(t)
    /\ lk' = [lk EXCEPT
                 !.owner[NextOp(t).lock] =
                     IF NextOp(t).op = "lock" THEN t ELSE "none",
                 !.th[t] =
                     IF lk.th[t].pc = Len(LocksOf(lk.th[t].handler))
                     THEN [handler |-> "none", pc |-> 0]
                     ELSE [lk.th[t] EXCEPT !.pc = @ + 1]]
    /\ UNCHANGED <<ctlVars, askVars, astVars, reqVars, muxVars, updVars,
                   scanVars, travVars>>

(***************************************************************************)
(* The attribute path of a declaration request.  Code is the text of the   *)
(* draft and Offset the offset of the cursor; indexes are those of the     *)
(* code, from 0, so Code[i] of the code is Code[i + 1] here.  From and To  *)
(* are size_t: a value is kept as its residue, SIZE_MAX being -1, so that  *)
(* From >= 0 holds for every value.                                        *)
(***************************************************************************)
ScanChars == {"a", "b", " ", ";"}

MaxCode == 3

\* std::string Punc = "\r\n\t ;"
Punc == {"\r", "\n", "\t", " ", ";"}

IsPunc(C) == C \in Punc

NoScan ==
    [pc |-> "idle", Code |-> <<>>, Offset |-> 0, Path |-> <<>>,
     outside |-> FALSE, crashed |-> FALSE]

InText(Code, i) == 0 <= i /\ i < Len(Code)

\* What a read of Code[i] with i outside the text may give: the process
\* dies, or a byte that is a delimiter, or one that is none
OutsideReads == {"crash", "delimiter", "other"}

\* llvm::StringRef::substr(Start, N) for Start and N inside the text
substr(Code, Start, N) == SubSeq(Code, Start + 1, Start + N)

\* llvm::StringRef::trim(Punc)
RECURSIVE ltrim(_)
ltrim(S) == IF S # <<>> /\ IsPunc(S[1]) THEN ltrim(Tail(S)) ELSE S

RECURSIVE rtrim(_)
rtrim(S) ==
    IF S # <<>> /\ IsPunc(S[Len(S)]) THEN rtrim(SubSeq(S, 1, Len(S) - 1))
    ELSE S

trim(S) == rtrim(ltrim(S))

\* for (; From >= 0 && !IsPunc(Code[From]);) From--;  The test From >= 0
\* is true of every size_t, so only a delimiter stops the loop
RECURSIVE ScanBack(_, _, _)
ScanBack(Code, From, Outside) ==
    IF ~InText(Code, From)
    THEN IF Outside = "crash"
         THEN [From |-> From, outside |-> TRUE, crashed |-> TRUE]
         ELSE IF Outside = "delimiter" \/ From < 0
         THEN [From |-> From, outside |-> TRUE, crashed |-> FALSE]
         ELSE LET r == ScanBack(Code, From - 1, Outside)
              IN [r EXCEPT !.outside = TRUE]
    ELSE IF IsPunc(Code[From + 1])
    THEN [From |-> From, outside |-> FALSE, crashed |-> FALSE]
    ELSE ScanBack(Code, From - 1, Outside)

\* for (; To < Code.size() && !IsPunc(Code[To]);) To++;
RECURSIVE ScanForth(_, _)
ScanForth(Code, To) ==
    IF To < Len(Code) /\ ~IsPunc(Code[To + 1]) THEN ScanForth(Code, To + 1)
    ELSE To

\* Code.substr(From, To - From).trim(Punc): a From beyond the text, the
\* wrapped one included, is clipped to the end of the text by substr
AttrPath(Code, From, To) ==
    IF InText(Code, From) THEN trim(substr(Code, From, To - From)) ELSE <<>>

\* The task of Server::onDecalration from the offset to APParams.Path
DeclarationScan(Outside) ==
    /\ scan.pc = "input"
    /\ LET r == ScanBack(scan.Code, scan.Offset, Outside)
           To == ScanForth(scan.Code, scan.Offset)
       IN scan' = [scan EXCEPT
                      !.pc = "done",
                      !.outside = r.outside,
                      !.crashed = r.crashed,
                      !.Path = IF r.crashed THEN <<>>
                               ELSE AttrPath(scan.Code, r.From, To)]
    /\ UNCHANGED <<ctlVars, askVars, astVars, reqVars, muxVars, updVars,
                   lkVars, travVars>>

(***************************************************************************)
(* Inputs.                                                                 *)
(***************************************************************************)
Configs == [workers : 0..MaxWorkers, optionsEnable : BOOLEAN]

DocVersions == {None, Some(0), Some(12)}

\* Content changes: replace the whole text, insert a character in front,
\* delete the first character, and a range whose end is before its start.
ContentChanges ==
    {WholeChange(<<"a">>), RangeChange(1, 0, <<>>), RangeChange(0, 1, <<>>),
     RangeChange(0, 0, <<"b">>)}

ChangeLists == SeqsUpTo(ContentChanges, MaxChanges)

\* Path p1 is edited with every input; path p2 is a second open document.
TextsFor(File) == IF File = "p1" THEN Texts ELSE {<<"a">>}
VersionsFor(File) == IF File = "p1" THEN DocVersions ELSE {None}
ChangeListsFor(File) ==
    IF File = "p1" THEN ChangeLists ELSE {<<>>, <<RangeChange(1, 0, <<>>)>>}

\* A batch of a worker: at most one entry per document, each with diagnostics
DiagParams ==
    {ps \in SeqsUpTo([uri : Paths, diagnostics : {1}], Cardinality(Paths)) :
        \A i, j \in 1..Len(ps) : i # j => ps[i].uri # ps[j].uri}

(***************************************************************************)
(* The controller after construction.                                      *)
(***************************************************************************)
CtlInit(Cfgs, Waits) ==
    /\ Config \in Cfgs
    /\ WaitWorker \in Waits
    /\ WorkspaceVersion = 0
    /\ EvalWorkers = <<>>
    /\ OptionWorkers = <<>>
    /\ DraftMgr = [p \in Paths |-> None]
    /\ ASTMgr = [p \in Paths |-> None]
    /\ DiagStatus = [WorkspaceVersion |-> 0, ClientDiags |-> <<>>]
    /\ out = <<>>
    /\ session = [p \in Paths |-> None]
    /\ lastNotif = NoNotification
    /\ lastDiag = None
    /\ maxPublished = -1
    /\ spawned = {}

(***************************************************************************)
(* Spec: the document notifications, over every text and content change.   *)
(***************************************************************************)
Init ==
    /\ CtlInit({[workers |-> 1, optionsEnable |-> FALSE]}, {FALSE})
    /\ hover = NoHover
    /\ req = NoRequest
    /\ mux = NoMux
    /\ upd = NoUpdate
    /\ lk = NoLocks
    /\ scan = NoScan
    /\ trav = NoTraversal
    /\ NoAST

DidOpen ==
    /\ \E File \in Paths :
           \E Text \in TextsFor(File), v \in VersionsFor(File) :
               onDocumentDidOpen(File, Text, v, TRUE)
    /\ UNCHANGED nonCtlVars

DidChange ==
    /\ \E File \in Paths :
           \E v \in VersionsFor(File), Changes \in ChangeListsFor(File) :
               onDocumentDidChange(File, v, Changes, TRUE)
    /\ UNCHANGED nonCtlVars

DidClose ==
    /\ \E File \in Paths : onDocumentDidClose(File, TRUE)
    /\ UNCHANGED nonCtlVars

Next == DidOpen \/ DidChange \/ DidClose

Spec == Init /\ [][Next]_vars

(***************************************************************************)
(* DiagSpec: worker diagnostics arriving in any order while documents are  *)
(* opened, changed and closed and the configuration is updated.            *)
(***************************************************************************)
DiagConfigs == [workers : 1..MaxWorkers, optionsEnable : {FALSE}]

DiagInit ==
    /\ CtlInit(DiagConfigs, {FALSE})
    /\ hover = NoHover
    /\ req = NoRequest
    /\ mux = NoMux
    /\ upd = NoUpdate
    /\ lk = NoLocks
    /\ scan = NoScan
    /\ trav = NoTraversal
    /\ NoAST

DiagDidOpen ==
    /\ \E ForkOk \in BOOLEAN :
           onDocumentDidOpen("p1", <<"a">>, None, ForkOk)
    /\ UNCHANGED nonCtlVars

DiagDidChange ==
    /\ \E ForkOk \in BOOLEAN :
           \E Changes \in {<<WholeChange(<<"a">>)>>,
                            <<RangeChange(1, 0, <<>>)>>} :
               onDocumentDidChange("p1", None, Changes, ForkOk)
    /\ UNCHANGED nonCtlVars

DiagDidClose ==
    /\ \E ForkOk \in BOOLEAN : onDocumentDidClose("p1", ForkOk)
    /\ UNCHANGED nonCtlVars

UpdateConfig ==
    /\ \E NewConfig \in DiagConfigs :
           \E ForkOkOption \in BOOLEAN, ForkOkEval \in BOOLEAN :
               updateConfig(NewConfig, ForkOkOption, ForkOkEval)
    /\ UNCHANGED nonCtlVars

\* A worker forked at version v reports a batch; its reader thread hands it
\* to the controller whenever it gets to it, also after the worker's eviction.
EvalDiagnostic ==
    /\ \E v \in spawned, Params \in DiagParams :
           onEvalDiagnostic([WorkspaceVersion |-> v, Params |-> Params])
    /\ UNCHANGED nonCtlVars

DiagNext ==
    DiagDidOpen \/ DiagDidChange \/ DiagDidClose \/ UpdateConfig
    \/ EvalDiagnostic

DiagSpec == DiagInit /\ [][DiagNext]_vars

(***************************************************************************)
(* HoverSpec: hover requests while documents are opened, so that eval      *)
(* workers are forked and evicted during a call of askWC.  HoverFair adds  *)
(* that the budget of a call elapses.                                      *)
(***************************************************************************)
HoverValues == {<<>>, <<"h">>}

HoverInit ==
    /\ CtlInit({[workers |-> MaxWorkers, optionsEnable |-> FALSE]}, {FALSE})
    /\ hover = NoHover
    /\ req = NoRequest
    /\ mux = NoMux
    /\ upd = NoUpdate
    /\ lk = NoLocks
    /\ scan = NoScan
    /\ trav = NoTraversal
    /\ NoAST

HoverDidOpen ==
    /\ \E ForkOk \in BOOLEAN : onDocumentDidOpen("p1", <<"a">>, None, ForkOk)
    /\ UNCHANGED nonCtlVars

WorkerReply ==
    \E i \in 1..Len(hover.asked), value \in HoverValues :
        WorkerAnswers(i, value)

HoverNext ==
    \/ HoverDidOpen
    \/ onHover
    \/ askWCStart
    \/ WorkerReply
    \/ askWCReturn
    \/ onHoverReply
    \/ HoverDone

HoverSpec == HoverInit /\ [][HoverNext]_vars

HoverFair == HoverSpec /\ WF_vars(askWCReturn)

(***************************************************************************)
(* AstSpec: one parsed document.  Its AST is a chain of frames from the    *)
(* root down to one static variable; each frame is a node that has the     *)
(* rest of the chain as one of its children and leaves as the others.      *)
(***************************************************************************)
Frame(kind, recursive, hasArg, n, slot) ==
    [kind |-> kind, recursive |-> recursive, hasArg |-> hasArg, n |-> n,
     slot |-> slot]

AttrsFrames ==
    {Frame("ExprAttrs", r, FALSE, 2, s) :
        r \in BOOLEAN, s \in {"value", "dynName", "dynValue"}}

LetFrames == {Frame("ExprLet", FALSE, FALSE, 2, s) : s \in {"value", "body"}}

\* x: e,  { f }: e,  { f, g ? d }: e,  { f, g ? d } @ x: e
LambdaFrames ==
    {Frame("ExprLambda", FALSE, TRUE, 0, "body"),
     Frame("ExprLambda", FALSE, FALSE, 1, "body"),
     Frame("ExprLambda", FALSE, FALSE, 2, "body"),
     Frame("ExprLambda", FALSE, FALSE, 2, "default"),
     Frame("ExprLambda", FALSE, TRUE, 2, "body"),
     Frame("ExprLambda", FALSE, TRUE, 2, "default")}

WithFrames == {Frame("ExprWith", FALSE, FALSE, 0, s) : s \in {"attrs", "body"}}

SelectFrames == {Frame("ExprSelect", FALSE, FALSE, 0, "e")}

Frames ==
    AttrsFrames \cup LetFrames \cup LambdaFrames \cup WithFrames
    \cup SelectFrames

\* The number of children of a frame's node, and which of them is the rest
\* of the chain
NKids(f) ==
    CASE f.kind = "ExprAttrs" -> f.n + 2
      [] f.kind = "ExprLet" -> f.n + 1
      [] f.kind = "ExprLambda" -> f.n + 1
      [] f.kind = "ExprWith" -> 2
      [] OTHER -> 2

SlotKid(f) ==
    CASE f.slot = "value" -> f.n
      [] f.slot = "dynName" -> f.n + 1
      [] f.slot = "dynValue" -> f.n + 2
      [] f.slot = "body" /\ f.kind = "ExprWith" -> 2
      [] f.slot = "body" /\ f.kind # "ExprWith" -> f.n + 1
      [] f.slot = "default" -> f.n
      [] OTHER -> 1

\* The other children: absent defaults, an error node where a dynamic
\* attribute name or a let body did not parse, literals elsewhere
Filler(f, k) ==
    CASE f.kind = "ExprLambda" /\ k <= f.n -> ExprNull
      [] f.kind = "ExprSelect" -> ExprNull
      [] f.kind = "ExprAttrs" /\ k = f.n + 1 -> ExprError
      [] f.kind = "ExprLet" /\ k = f.n + 1 -> ExprError
      [] OTHER -> ExprInt

RECURSIVE Build(_, _, _)
Build(ch, d, v) ==
    IF d > Len(ch) THEN v
    ELSE Node(ch[d].kind, ch[d].recursive, ch[d].hasArg, ch[d].n,
              [k \in 1..NKids(ch[d]) |->
                  IF k = SlotKid(ch[d]) THEN Build(ch, d + 1, v)
                  ELSE Filler(ch[d], k)])

VarPath(ch) == [d \in 1..Len(ch) |-> SlotKid(ch[d])]

\* The data model: which frames are static envs of the rest of the chain,
\* how many slots such an env has
StaticEnv(f) ==
    CASE f.kind = "ExprAttrs" -> f.recursive /\ f.slot \in {"value", "dynValue"}
      [] f.kind = "ExprLet" -> TRUE
      [] f.kind = "ExprLambda" -> f.slot = "body"
      [] OTHER -> FALSE

Slots(f) ==
    IF f.kind = "ExprLambda" THEN f.n + (IF f.hasArg THEN 1 ELSE 0) ELSE f.n

EnvsBelow(ch, d) == {e \in (d + 1)..Len(ch) : StaticEnv(ch[e])}

\* The depth of the frame that is the level-th static env outward of the
\* variable, 0 when there is none
BindingDepth(ch, level) ==
    LET D == {d \in 1..Len(ch) :
                 StaticEnv(ch[d]) /\ Cardinality(EnvsBelow(ch, d)) = level}
    IN IF D = {} THEN 0 ELSE CHOOSE d \in D : TRUE

Indexes == {0, 1, 2}

\* A displacement the parser can have given the variable: a slot of the env
\* it names, or that of a variable no env of the document binds
WellFormed(ch, level, index) ==
    IF BindingDepth(ch, level) = 0 THEN index = 0
    ELSE index < Slots(ch[BindingDepth(ch, level)])

AstInit ==
    /\ CtlInit({[workers |-> 1, optionsEnable |-> FALSE]}, {FALSE})
    /\ hover = NoHover
    /\ req = NoRequest
    /\ mux = NoMux
    /\ upd = NoUpdate
    /\ lk = NoLocks
    /\ scan = NoScan
    /\ trav = NoTraversal
    /\ chain \in SeqsUpTo(Frames, MaxDepth)
    /\ ref \in [level : 0..(MaxDepth - 1), index : Indexes]
    /\ WellFormed(chain, ref.level, ref.index)
    /\ ast = Build(chain, 1, ExprVar(ref.level, ref.index))
    /\ ParentMap = None
    /\ found = None

\* The document is parsed: its parent map is built
GetParentMap ==
    /\ ParentMap = None
    /\ ParentMap' = Some(getParentMap(ast))
    /\ UNCHANGED <<ctlVars, askVars, reqVars, muxVars, updVars, lkVars,
                   scanVars, travVars, chain, ref, ast, found>>

\* A definition request on the variable
SearchDefinition ==
    /\ ParentMap # None
    /\ found = None
    /\ found' = Some(searchDefinition(ast, VarPath(chain), ParentMap[1]))
    /\ UNCHANGED <<ctlVars, askVars, reqVars, muxVars, updVars, lkVars,
                   scanVars, travVars, chain, ref, ast,
                   ParentMap>>

AstNext == GetParentMap \/ SearchDefinition

AstSpec == AstInit /\ [][AstNext]_vars

(***************************************************************************)
(* ResolveSpec: as AstSpec, with a variable of any displacement, also one  *)
(* that names no env or no slot of the document.                           *)
(***************************************************************************)
ResolveInit ==
    /\ CtlInit({[workers |-> 1, optionsEnable |-> FALSE]}, {FALSE})
    /\ hover = NoHover
    /\ req = NoRequest
    /\ mux = NoMux
    /\ upd = NoUpdate
    /\ lk = NoLocks
    /\ scan = NoScan
    /\ trav = NoTraversal
    /\ chain \in SeqsUpTo(Frames, MaxDepth)
    /\ ref \in [level : 0..MaxDepth, index : Indexes]
    /\ ast = Build(chain, 1, ExprVar(ref.level, ref.index))
    /\ ParentMap = None
    /\ found = None

\* A lookup of the definition of the variable
DefinitionOf ==
    /\ ParentMap # None
    /\ found = None
    /\ found' = Some(definitionOf(ast, VarPath(chain), ParentMap[1]))
    /\ UNCHANGED <<ctlVars, askVars, reqVars, muxVars, updVars, lkVars,
                   scanVars, travVars, chain, ref, ast,
                   ParentMap>>

ResolveNext == GetParentMap \/ DefinitionOf

ResolveSpec == ResolveInit /\ [][ResolveNext]_vars

(***************************************************************************)
(* RequestSpec: read requests, one at a time, while a document is opened   *)
(* and closed and the configuration changes.  RequestFair adds that posted *)
(* tasks run, that the budget of an askWC call elapses, and that the AST   *)
(* of a scheduled parse is published.                                      *)
(***************************************************************************)
RequestConfigs == [workers : {MaxWorkers}, optionsEnable : BOOLEAN]

RequestInit ==
    /\ CtlInit(RequestConfigs, {FALSE})
    /\ hover = NoHover
    /\ req = NoRequest
    /\ mux = NoMux
    /\ upd = NoUpdate
    /\ lk = NoLocks
    /\ scan = NoScan
    /\ trav = NoTraversal
    /\ NoAST

\* The transport reader takes the next message only when the handler of the
\* previous one has returned
ReaderFree == ~req.reader /\ req.pc # "crashed"

RequestDidOpen ==
    /\ ReaderFree
    /\ \E ForkOk \in BOOLEAN :
           onDocumentDidOpen("p1", <<"a">>, None, ForkOk)
    /\ UNCHANGED nonCtlVars

RequestDidChange ==
    /\ ReaderFree
    /\ \E Changes \in {<<WholeChange(<<"a">>)>>,
                        <<RangeChange(1, 0, <<>>)>>} :
           onDocumentDidChange("p1", None, Changes, TRUE)
    /\ UNCHANGED nonCtlVars

RequestDidClose ==
    /\ ReaderFree
    /\ onDocumentDidClose("p1", TRUE)
    /\ UNCHANGED nonCtlVars

RequestUpdateConfig ==
    /\ ReaderFree
    /\ \E NewConfig \in RequestConfigs :
           updateConfig(NewConfig, TRUE, TRUE)
    /\ UNCHANGED nonCtlVars

DefinitionOutcomes ==
    {Located(Pos(<<>>, "attr", 0)), Failure("Unbound"), Failure("NotFound"),
     Failure("NotADefinition")}

\* What a worker may answer to the request in progress
AnswerValues ==
    IF req.method = "completion"
    THEN {List(<<"x">>, FALSE), List(<<"y">>, FALSE)}
    ELSE {<<"x">>}

FormatterOutputs == {<<>>, <<"a">>}

OnDefinition == ReaderFree /\ onDefinition("p1")

OnDecalration == ReaderFree /\ onDecalration("p1")

OnCompletion ==
    /\ ReaderFree
    /\ \E ctx \in LocationContexts : onCompletion("p1", ctx)

OnStatic ==
    /\ ReaderFree
    /\ \E method \in StaticMethods : onStatic(method, "p1")

OnFormat == ReaderFree /\ onFormat("p1")

RequestWorkerReply ==
    \E i \in 1..Len(req.asked), value \in AnswerValues :
        RequestAnswered(i, value)

DefinitionStatic == \E Def \in DefinitionOutcomes : DefinitionAction(Def)

DeclarationTask == \E Missing \in MissingDraftOutcomes : DeclarationAsk(Missing)

StaticActionRuns == \E Found \in BOOLEAN : StaticAction(Found)

FormatTaskRuns ==
    \E Missing \in MissingDraftOutcomes, Outcome \in FormatterOutcomes,
       FormattedCode \in FormatterOutputs :
        FormatTask(Missing, Outcome, FormattedCode)

RequestNext ==
    \/ RequestDidOpen
    \/ RequestDidChange
    \/ RequestDidClose
    \/ RequestUpdateConfig
    \/ OnDefinition
    \/ OnDecalration
    \/ OnCompletion
    \/ OnStatic
    \/ OnFormat
    \/ DefinitionAsk
    \/ DeclarationTask
    \/ CompletionAction
    \/ StaticTask
    \/ FormatTaskRuns
    \/ RequestWorkerReply
    \/ RequestAskReturn
    \/ DefinitionAfterAsk
    \/ DeclarationAfterAsk
    \/ CompletionAfterAsk
    \/ DefinitionStatic
    \/ StaticActionRuns
    \/ RequestDone

RequestSpec == RequestInit /\ [][RequestNext]_vars

RequestFair ==
    /\ RequestSpec
    /\ WF_vars(DefinitionAsk)
    /\ WF_vars(RequestAskReturn)
    /\ WF_vars(DefinitionAfterAsk)
    /\ WF_vars(DefinitionStatic)

(***************************************************************************)
(* MuxSpec: the reader threads of the workers deliver diagnostic batches   *)
(* concurrently.                                                           *)
(***************************************************************************)
MuxVersions == 1..2

MuxInit ==
    /\ CtlInit({[workers |-> MaxWorkers, optionsEnable |-> FALSE]}, {FALSE})
    /\ hover = NoHover
    /\ req = NoRequest
    /\ mux = NoMux
    /\ upd = NoUpdate
    /\ lk = NoLocks
    /\ scan = NoScan
    /\ trav = NoTraversal
    /\ NoAST

Deliver ==
    \E t \in Threads, v \in MuxVersions, Params \in DiagParams :
        MuxDeliver(t, [WorkspaceVersion |-> v, Params |-> Params])

Lock == \E t \in Threads : MuxLock(t)

Check == \E t \in Threads : MuxCheck(t)

Clear == \E t \in Threads : MuxClear(t)

Store == \E t \in Threads : MuxStore(t)

Publish == \E t \in Threads : MuxPublish(t)

Unlock == \E t \in Threads : MuxUnlock(t)

MuxNext == Deliver \/ Lock \/ Check \/ Clear \/ Store \/ Publish \/ Unlock

MuxSpec == MuxInit /\ [][MuxNext]_vars

(***************************************************************************)
(* PoolSpec: the eval worker pool under document notifications and         *)
(* configuration updates, in and outside wait-for-workers mode.            *)
(***************************************************************************)
PoolInit ==
    /\ CtlInit(DiagConfigs, BOOLEAN)
    /\ hover = NoHover
    /\ req = NoRequest
    /\ mux = NoMux
    /\ upd = NoUpdate
    /\ lk = NoLocks
    /\ scan = NoScan
    /\ trav = NoTraversal
    /\ NoAST

PoolNext == DiagDidOpen \/ DiagDidChange \/ DiagDidClose \/ UpdateConfig

PoolSpec == PoolInit /\ [][PoolNext]_vars

(***************************************************************************)
(* UpdateSpec: documents are opened, changed and closed, the handlers run  *)
(* statement by statement, and a fork may fail.                            *)
(***************************************************************************)
UpdateTexts == {<<"a">>, <<"b">>}

UpdateChanges == {<<WholeChange(<<"b">>)>>, <<RangeChange(1, 0, <<>>)>>}

UpdateInit ==
    /\ CtlInit(DiagConfigs, {FALSE})
    /\ hover = NoHover
    /\ req = NoRequest
    /\ mux = NoMux
    /\ upd = NoUpdate
    /\ lk = NoLocks
    /\ scan = NoScan
    /\ trav = NoTraversal
    /\ NoAST

UpdateDidOpen == \E File \in Paths, Text \in UpdateTexts : UpdOpen(File, Text)

UpdateDidChange ==
    \E File \in Paths, Changes \in UpdateChanges : UpdChange(File, Changes)

UpdateDidClose == \E File \in Paths : UpdClose(File)

UpdateStep == \E ForkOk \in BOOLEAN : UpdStatement(ForkOk)

UpdateNext ==
    UpdateDidOpen \/ UpdateDidChange \/ UpdateDidClose \/ UpdateStep

UpdateSpec == UpdateInit /\ [][UpdateNext]_vars

(***************************************************************************)
(* LockSpec: the transport reader, a pool thread and a worker reader       *)
(* thread run their handlers concurrently.                                 *)
(***************************************************************************)
LockInit ==
    /\ CtlInit({[workers |-> MaxWorkers, optionsEnable |-> TRUE]}, {FALSE})
    /\ hover = NoHover
    /\ req = NoRequest
    /\ mux = NoMux
    /\ upd = NoUpdate
    /\ lk = NoLocks
    /\ scan = NoScan
    /\ trav = NoTraversal
    /\ NoAST

StartHandler ==
    \E t \in LockThreads : \E handler \in HandlersOf(t) :
        LockStart(t, handler)

StepHandler == \E t \in LockThreads : LockStep(t)

LockNext == StartHandler \/ StepHandler

LockSpec == LockInit /\ [][LockNext]_vars

(***************************************************************************)
(* ScanSpec: the attribute path of a declaration request, for every text   *)
(* up to MaxCode characters and every offset in it.                        *)
(***************************************************************************)
ScanInit ==
    /\ CtlInit({[workers |-> MaxWorkers, optionsEnable |-> TRUE]}, {FALSE})
    /\ hover = NoHover
    /\ req = NoRequest
    /\ mux = NoMux
    /\ upd = NoUpdate
    /\ lk = NoLocks
    /\ \E Code \in SeqsUpTo(ScanChars, MaxCode) :
           \E Offset \in 0..Len(Code) :
               scan = [NoScan EXCEPT !.pc = "input", !.Code = Code,
                                     !.Offset = Offset]
    /\ trav = NoTraversal
    /\ NoAST

ScanPath == \E Outside \in OutsideReads : DeclarationScan(Outside)

ScanNext == ScanPath

ScanSpec == ScanInit /\ [][ScanNext]_vars

(***************************************************************************)
(* The generic visitor on every small AST, in both orders, with a visit    *)
(* hook that fails nowhere, at one node, or at every node.                 *)
(***************************************************************************)
MaxHeight == 2

VisitLeaves == {ExprNull, ExprInt, ExprError}

RECURSIVE VisitTrees(_)
VisitTrees(h) ==
    IF h = 0 THEN VisitLeaves
    ELSE VisitLeaves \cup
         {Node("ExprWith", FALSE, FALSE, 0, <<a, b>>) :
              a \in VisitTrees(h - 1),
              b \in VisitTrees(IF h > 1 THEN 1 ELSE 0)}

VisitPaths == SeqsUpTo({1, 2}, MaxHeight)

FailSets == {{}} \cup {{p} : p \in VisitPaths} \cup {VisitPaths}

VisitInit ==
    /\ CtlInit({[workers |-> 1, optionsEnable |-> FALSE]}, {FALSE})
    /\ hover = NoHover
    /\ req = NoRequest
    /\ mux = NoMux
    /\ upd = NoUpdate
    /\ lk = NoLocks
    /\ scan = NoScan
    /\ \E Root \in VisitTrees(MaxHeight), post \in BOOLEAN,
          failAt \in FailSets :
           trav = [NoTraversal EXCEPT !.pc = "start", !.Root = Root,
                                      !.post = post, !.failAt = failAt]
    /\ NoAST

VisitNext == Traverse

VisitSpec == VisitInit /\ [][VisitNext]_vars

(***************************************************************************)
(* Properties of the diagnostics.                                          *)
(***************************************************************************)
C1_NoOlderBatch ==
    \A i \in 1..Len(out') :
        out'[i].batch # -1 => out'[i].batch >= maxPublished

\* C1: a handler never sends the client a notification of a worker batch
\* whose workspace version is below that of a batch the client was already
\* sent, whatever the order in which the workers' batches arrive.
C1_DiagnosticsMonotonic == [][C1_NoOlderBatch]_vars

C1_Witness ==
    /\ lastDiag # None
    /\ lastDiag[1].dropped
    /\ lastDiag[1].WorkspaceVersion < maxPublished
    /\ \A i \in 1..Len(EvalWorkers) :
           EvalWorkers[i].WorkspaceVersion # lastDiag[1].WorkspaceVersion
    /\ out = <<>>
    /\ DiagStatus.ClientDiags # <<>>

(***************************************************************************)
(* Properties of the document notifications.                               *)
(***************************************************************************)
DocKinds == {"didOpen", "didChange", "didClose"}

\* C4, as claimed: every didOpen, didChange and didClose handled leaves
\* WorkspaceVersion exactly one above what it was before the notification.
C4_EveryNotificationIncrements ==
    lastNotif.kind \in DocKinds =>
        WorkspaceVersion = lastNotif.before + 1

C4_Increment ==
    lastNotif.kind \in DocKinds =>
        WorkspaceVersion =
            lastNotif.before + (IF lastNotif.result = "ignored" THEN 0 ELSE 1)

\* C4, amended: WorkspaceVersion never decreases; every didOpen, every
\* didClose and every didChange on a path that has a draft increases it by
\* exactly one, and a didChange on a path without a draft leaves it as it is.
C4_WorkspaceVersionSteps ==
    /\ []C4_Increment
    /\ [][WorkspaceVersion' >= WorkspaceVersion]_vars

C4_Witness ==
    /\ lastNotif.kind = "didChange"
    /\ lastNotif.result = "ignored"
    /\ lastNotif.before = 2
    /\ WorkspaceVersion = 2

\* C5: while a path's session is intact (opened, and every content change
\* since applied), its draft holds the didOpen text with all the changes
\* applied in arrival order, under the version of the last notification.
C5_DraftIsSessionText ==
    \A File \in Paths :
        session[File] # None =>
            /\ DraftMgr[File] # None
            /\ DraftMgr[File][1].Contents = session[File][1].text
            /\ decodeVersion(DraftMgr[File][1].Version)
                   = session[File][1].version

C5_Witness ==
    /\ lastNotif.kind = "didChange" /\ lastNotif.path = "p1"
    /\ lastNotif.n = 2 /\ lastNotif.result = "stored"
    /\ session["p1"] = Some([text |-> <<"b", "a">>, version |-> Some(12)])
    /\ DraftMgr["p1"] # None

C6_FailedChangeRemoves ==
    (lastNotif.kind = "didChange" /\ lastNotif.failedAt > 0) =>
        DraftMgr[lastNotif.path] = None

C6_OnlyDidOpenAdds ==
    \A File \in Paths :
        (DraftMgr[File] = None /\ DraftMgr'[File] # None) =>
            (lastNotif'.kind = "didOpen" /\ lastNotif'.path = File)

\* C6: after a didChange one of whose content changes did not apply, the
\* path has no draft (nothing of the notification is stored), and a path
\* without a draft gets one only by a didOpen for it.
C6_FailedChangeDropsDraft ==
    /\ []C6_FailedChangeRemoves
    /\ [][C6_OnlyDidOpenAdds]_vars

C6_Witness ==
    /\ lastNotif.kind = "didChange" /\ lastNotif.path = "p1"
    /\ lastNotif.n = 2 /\ lastNotif.failedAt = 2
    /\ DraftMgr["p1"] = None
    /\ DraftMgr["p2"] # None

(***************************************************************************)
(* Properties of the requests to the workers.                              *)
(***************************************************************************)
NonEmptyContents == [H \in Range(hover.Resp) |-> H.value # <<>>]

AnyReply == [H \in Range(hover.Resp) |-> AnyLocation(H)]

\* r is a matching reply of Replies that no matching reply is fresher than,
\* or the default when no reply matches
FreshestMatch(Replies, Pred, Default, r) ==
    LET M == {i \in 1..Len(Replies) : Pred[Replies[i]]}
    IN IF M = {} THEN r = Default
       ELSE \E i \in M :
                /\ r = Replies[i]
                /\ \A j \in M :
                       Replies[i].WorkspaceVersion
                           >= Replies[j].WorkspaceVersion

\* C2: of the replies a call collected, latestMatchOr returns one that
\* satisfies the predicate and has the greatest WorkspaceVersion among those
\* that do, the default when none does; the hover request is answered with
\* the freshest reply whose content is not empty.
C2_LatestMatch ==
    /\ hover.pc \in {"returned", "replied"} =>
           /\ FreshestMatch(hover.Resp, AnyReply, DefaultHover,
                  latestMatchOr(hover.Resp, AnyReply, DefaultHover))
           /\ FreshestMatch(hover.Resp, NonEmptyContents, DefaultHover,
                  latestMatchOr(hover.Resp, NonEmptyContents, DefaultHover))
    /\ hover.pc = "replied" =>
           FreshestMatch(hover.Resp, NonEmptyContents, DefaultHover,
                         hover.reply[1])

C2_Witness ==
    /\ hover.pc = "replied"
    /\ Len(hover.Resp) = 2
    /\ hover.Resp[1].WorkspaceVersion > hover.Resp[2].WorkspaceVersion
    /\ hover.Resp[1].value = <<>>
    /\ hover.Resp[2].value # <<>>
    /\ hover.reply = Some(hover.Resp[2])

\* What the call has collected is what the workers asked have answered
C3_Collected ==
    hover.pc = "asking" =>
        /\ Len(hover.Resp) = Cardinality(hover.answered)
        /\ {hover.Resp[k].WorkspaceVersion : k \in 1..Len(hover.Resp)}
               = {hover.asked[i] : i \in hover.answered}

C3_ReturnKeepsReplies ==
    (hover.pc \in {"asking", "returned", "replied"}
        /\ hover'.pc \in {"returned", "replied"}) =>
            hover'.Resp = hover.Resp

\* C3: a call of askWC that is waiting returns, whether or not the workers
\* it asked answer; it returns the replies that arrived, and a reply that
\* arrives after the return changes nothing of what was returned.
C3_AskWCReturns ==
    /\ (hover.pc = "asking") ~> (hover.pc = "returned")
    /\ []C3_Collected
    /\ [][C3_ReturnKeepsReplies]_vars

C3_Witness ==
    /\ hover.pc = "returned"
    /\ Len(hover.asked) = 2
    /\ ~Alive(hover.asked[1])
    /\ hover.answered = {2}
    /\ hover.Resp = <<>>

(***************************************************************************)
(* Properties of the parent map and of the scope resolver.                 *)
(***************************************************************************)
RECURSIVE NodesUnder(_, _)
NodesUnder(Root, E) ==
    {E} \cup UNION {NodesUnder(Root, E \o <<k>>) :
                       k \in {j \in 1..Len(At(Root, E).kids) :
                                 At(Root, E).kids[j].kind # "null"}}

RECURSIVE ReachesRoot(_, _, _)
ReachesRoot(Parents, E, fuel) ==
    IF E = <<>> THEN TRUE
    ELSE IF fuel = 0 \/ E \notin DOMAIN Parents THEN FALSE
    ELSE ReachesRoot(Parents, Parents[E], fuel - 1)

\* The path of the frame at depth d of the chain
FramePath(d) == SubSeq(VarPath(chain), 1, d - 1)

\* C7: the binding site searchDefinition finds for the static variable is
\* the ancestor that is the level-th static env outward, counting only the
\* ancestors that create the env of the child the chain goes through and no
\* with; there is no site when the envs run out first.
C7_InnermostSite ==
    found # None =>
        found[1].site =
            (IF BindingDepth(chain, ref.level) = 0 THEN None
             ELSE Some(FramePath(BindingDepth(chain, ref.level))))

C7_Witness ==
    /\ found # None
    /\ chain = <<Frame("ExprLet", FALSE, FALSE, 2, "body"),
                 Frame("ExprWith", FALSE, FALSE, 0, "body")>>
    /\ ref.level = 0
    /\ found[1].site = Some(<<>>)

\* C8: the parent map has an entry for exactly the nodes reachable from the
\* root other than the root, error nodes included; the entry of a node is
\* the node it is a direct child of; following the entries from any node
\* ends at the root.
C8_ParentMapTotal ==
    ParentMap # None =>
        /\ DOMAIN ParentMap[1] = NodesUnder(ast, <<>>) \ {<<>>}
        /\ \A E \in DOMAIN ParentMap[1] :
               /\ ParentMap[1][E] = Front(E)
               /\ ReachesRoot(ParentMap[1], E,
                              Cardinality(DOMAIN ParentMap[1]))

C8_Witness ==
    /\ ParentMap # None
    /\ chain = <<Frame("ExprLet", FALSE, FALSE, 2, "value"),
                 Frame("ExprAttrs", TRUE, FALSE, 2, "dynValue")>>
    /\ At(ast, <<3>>).kind = "ExprError"
    /\ At(ast, <<2, 3>>).kind = "ExprError"
    /\ Cardinality(DOMAIN ParentMap[1]) = 7

\* C9: an attribute set is the binding site only if it is recursive and the
\* variable is inside the value of one of its attributes, never if the
\* variable is inside a dynamic attribute name; a variable of level 0
\* directly in a value of a rec set resolves to the name position of the
\* attribute of its index, and in a document that is one non-recursive set
\* the lookup ends unbound.
C9_OnlyRecursiveValues ==
    found # None =>
        \A d \in 1..Len(chain) :
            chain[d].kind = "ExprAttrs" =>
                /\ (found[1].site = Some(FramePath(d))
                       \/ (found[1].pos.what = "attr"
                              /\ found[1].pos.at = FramePath(d))) =>
                       (chain[d].recursive /\ chain[d].slot # "dynName")
                /\ (d = Len(chain) /\ chain[d].recursive
                       /\ chain[d].slot = "value" /\ ref.level = 0) =>
                       found[1].pos = Pos(FramePath(d), "attr", ref.index)
                /\ (Len(chain) = 1 /\ ~chain[d].recursive) =>
                       found[1] = [site |-> None, pos |-> noPos]

C9_Witness ==
    /\ found # None
    /\ chain = <<Frame("ExprAttrs", TRUE, FALSE, 2, "value"),
                 Frame("ExprAttrs", FALSE, FALSE, 2, "value")>>
    /\ ref = [level |-> 0, index |-> 1]
    /\ found[1].pos = Pos(<<>>, "attr", 1)

\* The slot-order rule of lambdas: the name that a slot holds
SlotOrder(f, index) ==
    IF f.hasArg
    THEN IF index = 0 THEN <<"arg", 0>> ELSE <<"formal", index - 1>>
    ELSE <<"formal", index>>

\* C10: when the binding site is a lambda, the position found is that of
\* the name the slot-order rule gives the variable's index: the argument
\* name for index 0 of a lambda that has one, the formal of that slot
\* otherwise.
C10_ResolvesToSlotName ==
    (found # None /\ BindingDepth(chain, ref.level) # 0) =>
        LET d == BindingDepth(chain, ref.level)
        IN chain[d].kind = "ExprLambda" =>
               found[1].pos = Pos(FramePath(d),
                                  SlotOrder(chain[d], ref.index)[1],
                                  SlotOrder(chain[d], ref.index)[2])

C12_PrefersWorkers ==
    req.method = "definition" =>
        /\ Len(req.sent) <= 1
        /\ req.static => (req.asks = <<"eval">> /\ req.Resp = <<>>)
        /\ req.pc = "done" =>
               /\ Len(req.sent) = 1
               /\ req.Resp # <<>> =>
                      /\ ~req.static
                      /\ \E i \in 1..Len(req.Resp) :
                             /\ req.sent[1] = ValueReply(req.Resp[i])
                             /\ \A j \in 1..Len(req.Resp) :
                                    req.Resp[i].WorkspaceVersion
                                        >= req.Resp[j].WorkspaceVersion

\* C12: a definition request is answered with the freshest reply of the
\* eval workers when one arrived within the deadline, by the static
\* resolver only when none arrived, and in both cases it gets exactly one
\* reply.
C12_DefinitionAnswered ==
    /\ []C12_PrefersWorkers
    /\ (req.method = "definition" /\ req.pc = "posted")
           ~> (req.method = "definition" /\ req.pc = "done")

C12_Witness ==
    /\ req.method = "definition" /\ req.pc = "done"
    /\ DraftMgr[req.path] # None
    /\ Len(req.Resp) = 2
    /\ req.Resp[1].WorkspaceVersion > req.Resp[2].WorkspaceVersion
    /\ req.sent = <<ValueReply(req.Resp[1])>>

\* C13: when the static resolver fails for a definition request, the reply
\* is the empty object, and no reply of the static path is an error.
C13_ResolverMissIsNeutral ==
    (req.method = "definition" /\ req.static /\ req.pc = "done") =>
        /\ req.sent[1].kind # "error"
        /\ req.def[1].tag # "ok" => req.sent = <<EmptyObject>>

C13_Witness ==
    /\ req.method = "definition" /\ req.static /\ req.pc = "done"
    /\ req.def = Some(Failure("NotADefinition"))
    /\ req.sent = <<EmptyObject>>

\* The read requests of the language features
ReadMethods ==
    {"hover", "completion", "definition", "declaration", "documentSymbol",
     "documentLink"}

\* C14: a read request on a path that has no draft is answered with a
\* neutral value: the reply is never an error, and no task of a read
\* request dereferences the missing draft.
C14_NeutralWithoutDraft ==
    req.method \in ReadMethods =>
        /\ req.pc # "crashed"
        /\ (req.pc = "done" /\ DraftMgr[req.path] = None) =>
               req.sent[Len(req.sent)].kind # "error"

\* The step that ends the Action of a completion request
CompletionEnds ==
    /\ req.method = "completion" /\ req.pc \in {"withAST", "returned"}
    /\ req'.pc = "done"

\* The pools a completion request is to ask, by context
Routed(ctx, optionsEnable) ==
    (IF ctx # "Value" /\ optionsEnable THEN <<"option">> ELSE <<>>)
        \o (IF ctx # "AttrName" THEN <<"eval">> ELSE <<>>)

C17_NoOptionRequestWhileDisabled ==
    [][~Config.optionsEnable =>
          /\ ~(/\ req'.pc = "asking" /\ req.pc # "asking"
                /\ req'.pool = "option" /\ req'.asked # <<>>)
          /\ (req.pc = "idle" /\ req'.method = "declaration") =>
                 (req'.pc = "done" /\ req'.sent = <<NullReply>>)
          /\ CompletionEnds => req.LOptions = None]_vars

\* C18: a formatting request gets exactly one reply: an error when the
\* formatter could not be started, failed or was not ready in time, and
\* otherwise one text edit over (0,0)-(INT_MAX,INT_MAX) with its output.
C18_FormatReply ==
    req.method = "formatting" =>
        /\ req.pc # "crashed"
        /\ Len(req.sent) <= 1
        /\ req.pc = "done" =>
               req.sent = <<IF req.fmt[1].outcome = "ok"
                            THEN ValueReply(<<TextEdit(req.fmt[1].output)>>)
                            ELSE ErrorReply>>

\* C19: the handler of a read request has returned to the transport reader
\* while the request waits for an AST or for a worker, so that a didChange
\* can be handled before the request is answered.
C19_HandlerReturns ==
    req.pc \in {"posted", "withAST", "asking", "returned"} => ReaderFree

(***************************************************************************)
(* Properties of the concurrent delivery of diagnostics.                   *)
(***************************************************************************)
\* What the client is sent for the accepted batches k, k+1, ...: for each
\* the clears of the batch before it, then its own notifications
RECURSIVE ExpectedFrom(_, _)
ExpectedFrom(accepted, k) ==
    IF k > Len(accepted) THEN <<>>
    ELSE Clears(IF k = 1 THEN <<>> ELSE accepted[k - 1].Params)
             \o Publishes(accepted[k])
             \o ExpectedFrom(accepted, k + 1)

IsPrefix(s, t) == Len(s) <= Len(t) /\ s = SubSeq(t, 1, Len(s))

\* C20: the notifications sent are, batch after batch in the order of
\* acceptance, the clears of the URIs of the batch accepted before and then
\* the notifications of the batch, with no notification of another batch
\* in between; when no thread is inside, the batch remembered is exactly
\* the last one accepted.
C20_BatchesInOrder ==
    /\ IsPrefix(mux.stream, ExpectedFrom(mux.accepted, 1))
    /\ mux.lock = 0 =>
           /\ mux.stream = ExpectedFrom(mux.accepted, 1)
           /\ DiagStatus.ClientDiags =
                  IF mux.accepted = <<>> THEN <<>>
                  ELSE mux.accepted[Len(mux.accepted)].Params

C20_Witness ==
    /\ mux.lock = 0
    /\ Len(mux.accepted) = 2
    /\ Len(mux.accepted[1].Params) = 2
    /\ Len(mux.accepted[2].Params) = 1
    /\ Len(mux.stream) = 5
    /\ \E t \in Threads : mux.th[t].pc = "lock"

(***************************************************************************)
(* Properties of the worker pools.                                         *)
(***************************************************************************)
\* C15: outside wait mode, once the fork of the latest workspace version has
\* completed, the eval worker pool holds at most eval.workers handles, also
\* after a configuration update that lowers eval.workers.
C15_PoolWithinCap ==
    (~WaitWorker /\ WorkspaceVersion \in spawned) =>
        Len(EvalWorkers) <= Config.workers

(***************************************************************************)
(* Properties of the version check of the diagnostics.                     *)
(***************************************************************************)
\* The step of thread t over the version check
Checks(t) == mux.th[t].pc = "check" /\ mux'.th[t].pc # "check"

\* The step of thread t that leaves the guarded block after publishing
Leaves(t) == mux.th[t].pc = "publish" /\ mux'.th[t].pc = "idle"

\* C21: a batch is dropped exactly when its version is strictly less than
\* the published one; a dropped batch changes neither the published version
\* nor the remembered batch and sends nothing; an accepted batch, one of
\* the published version included, sets the published version, and when
\* its handler leaves, the previous batch was cleared and it is the batch
\* remembered.
C21_DroppedIffOlder ==
    /\ [][\A t \in Threads :
            /\ Checks(t) =>
                  IF mux.th[t].Diag.WorkspaceVersion
                         < DiagStatus.WorkspaceVersion
                  THEN /\ DiagStatus' = DiagStatus
                       /\ mux'.stream = mux.stream
                       /\ mux'.accepted = mux.accepted
                       /\ mux'.th[t].pc = "idle"
                  ELSE /\ mux'.accepted = Append(mux.accepted, mux.th[t].Diag)
                       /\ DiagStatus'.WorkspaceVersion =
                              mux.th[t].Diag.WorkspaceVersion
                       /\ mux'.th[t].pc = "clear"
            /\ Leaves(t) =>
                  /\ mux.accepted[Len(mux.accepted)] = mux.th[t].Diag
                  /\ DiagStatus.ClientDiags = mux.th[t].Diag.Params
                  /\ DiagStatus.WorkspaceVersion
                         = mux.th[t].Diag.WorkspaceVersion
                  /\ mux.stream = ExpectedFrom(mux.accepted, 1)]_vars

C21_Witness ==
    /\ mux.lock = 0 /\ mux.delivered = 3
    /\ \A t \in Threads : mux.th[t].pc = "idle"
    /\ Len(mux.accepted) = 2
    /\ mux.accepted[1].WorkspaceVersion = 2
    /\ mux.accepted[2].WorkspaceVersion = 2
    /\ mux.accepted[1].Params # <<>> /\ mux.accepted[2].Params # <<>>
    /\ mux.accepted[1].Params # mux.accepted[2].Params
    /\ DiagStatus.ClientDiags = mux.accepted[2].Params

(***************************************************************************)
(* Properties of the eval worker pool.                                     *)
(***************************************************************************)
\* C22: the handles of the pool are in fork order, their snapshot versions
\* not decreasing from front to back; a fork that makes the pool larger
\* than its size outside wait mode evicts exactly the front handle, and in
\* wait mode nothing is evicted.
C22_FrontEvicted ==
    /\ [](\A i, j \in 1..Len(EvalWorkers) :
            i < j => EvalWorkers[i].WorkspaceVersion
                        <= EvalWorkers[j].WorkspaceVersion)
    /\ [][IF spawned' # spawned
          THEN LET Pushed == Append(EvalWorkers, Proc(WorkspaceVersion'))
               IN IF Len(Pushed) > Config'.workers /\ ~WaitWorker
                  THEN EvalWorkers' = Tail(Pushed)
                  ELSE EvalWorkers' = Pushed
          ELSE EvalWorkers' = EvalWorkers]_vars
    /\ [][WaitWorker =>
            /\ Len(EvalWorkers') >= Len(EvalWorkers)
            /\ EvalWorkers = SubSeq(EvalWorkers', 1, Len(EvalWorkers))]_vars

C22_Witness ==
    /\ ~WaitWorker
    /\ Config.workers = 2
    /\ Len(EvalWorkers) = 2
    /\ EvalWorkers[1].WorkspaceVersion = 2
    /\ EvalWorkers[2].WorkspaceVersion = 3

(***************************************************************************)
(* Properties of what a forked worker carries.                             *)
(***************************************************************************)
\* The text of path p in a draft store
ContentsOf(Drafts, p) ==
    IF Drafts[p] = None THEN None ELSE Some(Drafts[p][1].Contents)

\* C23: at every fork for a document notification the version was already
\* incremented for it, the draft store holds the text of every notification
\* handled so far, this one included, and the parse of its text was
\* scheduled; the snapshot version of a worker never exceeds the
\* controller's WorkspaceVersion.
C23_WorkerCarriesDrafts ==
    /\ \A k \in 1..Len(upd.snaps) :
           LET sn == upd.snaps[k]
           IN /\ sn.version = sn.count
              /\ sn.version <= WorkspaceVersion
              /\ \A p \in Paths : ContentsOf(sn.Drafts, p) = sn.expect[p]
              /\ sn.body = "add" =>
                     /\ sn.Parses[sn.File] # None
                     /\ Some(sn.Parses[sn.File][1].contents)
                            = sn.expect[sn.File]
    /\ \A i \in 1..Len(EvalWorkers) :
           /\ EvalWorkers[i].WorkspaceVersion <= WorkspaceVersion
           /\ \E k \in 1..Len(upd.snaps) :
                  upd.snaps[k].version = EvalWorkers[i].WorkspaceVersion

C23_Witness ==
    /\ upd.pc = 0
    /\ Len(upd.snaps) = 2
    /\ upd.snaps[1].version = 1
    /\ upd.snaps[2].version = 3
    /\ upd.snaps[2].body = "add"
    /\ ContentsOf(upd.snaps[2].Drafts, "p1") = Some(<<"b">>)
    /\ ContentsOf(upd.snaps[2].Drafts, "p2") = Some(<<"a">>)
    /\ Len(EvalWorkers) = 2

(***************************************************************************)
(* Properties of the mutexes.                                              *)
(***************************************************************************)
Held(t) == {l \in Locks : lk.owner[l] = t}

\* C24: no thread holds two of the mutexes at the same time, and whenever
\* a handler is in progress some thread can perform its next operation:
\* the handlers never wait for each other in a cycle.
C24_LocksAreLeaves ==
    /\ \A t \in LockThreads : Cardinality(Held(t)) <= 1
    /\ (\E t \in LockThreads : lk.th[t].pc > 0) =>
           \E t \in LockThreads : CanStep(t)

C24_Witness ==
    /\ Held("reader") = {"EvalWorkerLock"}
    /\ lk.th["reader"].handler = "updateConfig"
    /\ Held("worker") = {"DiagStatusLock"}
    /\ lk.th["pool"].handler = "definition"
    /\ lk.th["pool"].pc = 1
    /\ ~CanStep("pool")

(***************************************************************************)
(* Properties of the attribute path of a declaration request.              *)
(***************************************************************************)
\* The start of the run of characters that are no delimiters and end just
\* before index i
RECURSIVE RunStart(_, _)
RunStart(Code, i) ==
    IF i > 0 /\ ~IsPunc(Code[i]) THEN RunStart(Code, i - 1) ELSE i

\* The end of the run of characters that are no delimiters from index i on
RECURSIVE RunEnd(_, _)
RunEnd(Code, i) ==
    IF i < Len(Code) /\ ~IsPunc(Code[i + 1]) THEN RunEnd(Code, i + 1) ELSE i

\* The maximal run without delimiter around the cursor
MaximalRun(Code, Offset) ==
    SubSeq(Code, RunStart(Code, Offset) + 1, RunEnd(Code, Offset))

\* C25: for every text and every offset in it the scan reads no index
\* outside the text, does not end the process, and the attribute path is
\* the maximal run of characters that are no delimiters around the cursor.
C25_AttrPathIsMaximalRun ==
    scan.pc = "done" =>
        /\ ~scan.outside
        /\ ~scan.crashed
        /\ scan.Path = MaximalRun(scan.Code, scan.Offset)

(***************************************************************************)
(* Properties of the generic visitor.                                      *)
(***************************************************************************)
RECURSIVE InTree(_, _)
InTree(Root, E) ==
    \/ E = <<>>
    \/ /\ Head(E) <= Len(Root.kids)
       /\ InTree(Root.kids[Head(E)], Tail(E))

\* The nodes reachable from the root: the paths that end at a non-null node
Reachable(Root) ==
    {E \in VisitPaths : InTree(Root, E) /\ At(Root, E).kind # "null"}

IsAncestor(P, E) == Len(P) < Len(E) /\ P = SubSeq(E, 1, Len(P))

\* What the same visitor logs on the same AST when its hook never fails
FullLog ==
    Derived_traverseExpr([trav EXCEPT !.failAt = {}], trav.Root, <<>>,
                         <<>>).V

\* C26: a traversal calls the visit hook at most once per node and only on
\* nodes reachable from the root (never on a null child); a node is visited
\* before every node below it when shouldTraversePostOrder is false and
\* after every node below it when it is true; if no hook returned false the
\* traversal returns true and every reachable node, error nodes included,
\* was visited; otherwise it returns false, the failing hook is the last one
\* called, and what was visited is the beginning of the full traversal
C26_VisitsOnceInOrder ==
    trav.pc = "done" =>
        LET Log == trav.Log
            N == Len(Log)
        IN /\ \A i, j \in 1..N : Log[i] = Log[j] => i = j
           /\ Range(Log) \subseteq Reachable(trav.Root)
           /\ \A i, j \in 1..N :
                  IsAncestor(Log[i], Log[j]) => (i < j <=> ~trav.post)
           /\ IF \E i \in 1..N : Log[i] \in trav.failAt
              THEN /\ ~trav.ok
                   /\ Log[N] \in trav.failAt
                   /\ \A i \in 1..(N - 1) : Log[i] \notin trav.failAt
                   /\ IsPrefix(Log, FullLog)
              ELSE /\ trav.ok
                   /\ Range(Log) = Reachable(trav.Root)

\* A post-order traversal of an AST with a null child, stopped by the hook
\* of an inner node after an error node was visited, with nodes left over
C26_Witness ==
    /\ trav.pc = "done"
    /\ trav.post
    /\ ~trav.ok
    /\ Len(trav.Log) >= 2
    /\ Len(trav.Log[Len(trav.Log)]) = 1
    /\ \E i \in 1..Len(trav.Log) :
           At(trav.Root, trav.Log[i]).kind = "ExprError"
    /\ \E E \in VisitPaths :
           InTree(trav.Root, E) /\ E # <<>> /\ At(trav.Root, E).kind = "null"
    /\ Len(trav.Log) < Cardinality(Reachable(trav.Root))

====
